---------------------------- MODULE Spec2Model ----------------------------
(***************************************************************************)
(* Doka Burger order backend (engeve89/burguerdokasite).                   *)
(*                                                                         *)
(* The repository holds several revisions of one Express server.  The      *)
(* model follows four of them; revisao says which one is running:          *)
(*   "flags"   the order-flag revision, src/unnamed/part_000 (tables       *)
(*             clientes and pedidos, the two "mensagem_*_enviada" flags,   *)
(*             timers that SELECT the flag, send and UPDATE it);           *)
(*   "index1"  the first revision of src/index.js (lines 1-378): the       *)
(*             checkServicesReady middleware, no order rows, timers that   *)
(*             send unconditionally;                                       *)
(*   "index2"  the second revision of src/index.js (lines 380-791): the    *)
(*             inline readiness test, no order rows;                       *)
(*   "rawkey"  src/unnamed/part_002: the tables of the order-flag revision *)
(*             keyed by cliente.telefone as sent, an identification route  *)
(*             with its own key, timer callbacks left empty.               *)
(*                                                                         *)
(* Every async handler is cut at its awaits: one action per resumption.    *)
(* A phone is a sequence of character classes: 0..9 are the digits,        *)
(* NonDigit stands for any other character.  The other texts of a customer *)
(* are sequences of character codes.  Time is in milliseconds.             *)
(* conexoes is the ledger of the pool: for every connection taken by a    *)
(* handler, a timer callback or setupDatabase, the number of release()     *)
(* calls made on it.  gerarCupomFiscal is an operator on sequences of      *)
(* character codes, with the clock it reads as a parameter.                *)
(* src/whatsapp-worker.js is a thread of its own: worker and parentPort    *)
(* hold its state and the messages it has posted to the parent.            *)
(***************************************************************************)
EXTENDS Integers, Sequences, FiniteSets, TLC

(***************************************************************************)
(* Bounds of the model.                                                    *)
(***************************************************************************)
MaxReq == 1          \* order submissions admitted past the synchronous checks
MaxInFlight == 2     \* handlers and timer callbacks suspended at an await at once
MaxRearm == 1        \* re-armed timers, specification SpecRearm
MaxRestart == 2      \* re-armed timers, specification SpecRestart
MaxRetryTimers == 1  \* pending setTimeout(initializeWhatsApp, ...) timers
MaxLines == 2        \* lines of a cart, specification SpecRender
MaxCalls == 2        \* calls of gerarCupomFiscal, specification SpecRender
MaxClock == 60       \* seconds the clock runs, specification SpecRender
MaxEvents == 4       \* events the client of the worker emits, specification SpecWorker
MaxMessages == 2     \* messages the parent posts to the worker, specification SpecWorker

(***************************************************************************)
(* Program constants.                                                      *)
(***************************************************************************)
ConfDelay == 30 * 1000             \* setTimeout(..., 30 * 1000)
DispatchDelay == 30 * 60 * 1000    \* setTimeout(..., 30 * 60 * 1000)
ConfDelayIndex == 30000            \* setTimeout(..., 30000)
DispatchDelayIndex == 1800000      \* setTimeout(..., 1800000)
NonDigit == 10                     \* any character \D matches
Sp == 32                           \* ' '
Nbsp == 160                        \* \u00A0

Revisions == {"flags", "index1", "index2"}
IndexRevisions == {"index1", "index2"}
StoreRevisions == {"flags", "rawkey"}    \* the revisions with the table pedidos

Min(a, b) == IF a < b THEN a ELSE b
Max(a, b) == IF a > b THEN a ELSE b

(***************************************************************************)
(* normalizarTelefone, order-flag revision.  null is the empty text.       *)
(***************************************************************************)
Null == << >>

IsDigit(c) == c \in 0..9

StripCountry(limpo) ==
  IF Len(limpo) >= 2 /\ limpo[1] = 5 /\ limpo[2] = 5
  THEN SubSeq(limpo, 3, Len(limpo))
  ELSE limpo

\* Variant: no typeof test; the value is turned into text first.
normalizarTelefoneAnyType(telefone) ==
  LET limpo == StripCountry(SelectSeq(telefone.chars, IsDigit))
  IN  IF Len(limpo) < 10 \/ Len(limpo) > 11 THEN Null
      ELSE LET ddd == SubSeq(limpo, 1, 2)
               resto == SubSeq(limpo, 3, Len(limpo))
               numeroBase == IF Len(resto) = 9 /\ resto[1] = 9
                             THEN Tail(resto) ELSE resto
           IN  IF Len(numeroBase) # 8 THEN Null
               ELSE <<5, 5>> \o ddd \o numeroBase

normalizarTelefone(telefone) ==
  IF ~telefone.isString THEN Null
  ELSE LET limpo == StripCountry(SelectSeq(telefone.chars, IsDigit))
       IN  IF Len(limpo) < 10 \/ Len(limpo) > 11 THEN Null
           ELSE LET ddd == SubSeq(limpo, 1, 2)
                    resto == SubSeq(limpo, 3, Len(limpo))
                    numeroBase == IF Len(resto) = 9 /\ resto[1] = 9
                                  THEN Tail(resto) ELSE resto
                IN  IF Len(numeroBase) # 8 THEN Null
                    ELSE <<5, 5>> \o ddd \o numeroBase

(***************************************************************************)
(* normalizarTelefone of src/index.js: the mobile 9 is kept.               *)
(***************************************************************************)
normalizarTelefoneIndex(telefone) ==
  IF ~telefone.isString THEN Null
  ELSE LET limpo == StripCountry(SelectSeq(telefone.chars, IsDigit))
       IN  IF Len(limpo) < 10 \/ Len(limpo) > 11 THEN Null
           ELSE <<5, 5>> \o limpo

(***************************************************************************)
(* cleanInput of src/index.js, first revision.  SqlNull is null; the empty *)
(* sequence is ''.                                                         *)
(***************************************************************************)
SqlNull == <<0>>

Falsy(input) == input = SqlNull \/ input = << >>

RECURSIVE TrimStart(_)
TrimStart(s) ==
  IF s # << >> /\ Head(s) \in {Sp, Nbsp} THEN TrimStart(Tail(s)) ELSE s

RECURSIVE TrimEnd(_)
TrimEnd(s) ==
  IF s # << >> /\ s[Len(s)] \in {Sp, Nbsp}
  THEN TrimEnd(SubSeq(s, 1, Len(s) - 1)) ELSE s

\* input.replace(/\u00A0/g, ' ').trim()
cleanInput(input) ==
  IF Falsy(input) THEN SqlNull
  ELSE TrimEnd(TrimStart([i \in DOMAIN input |->
                            IF input[i] = Nbsp THEN Sp ELSE input[i]]))

\* cleanInput(x) || ''
OrEmpty(x) == IF Falsy(x) THEN << >> ELSE x

(***************************************************************************)
(* Request payloads.  A phone field is [isString, chars]; a missing or     *)
(* non-text value has isString = FALSE.                                    *)
(***************************************************************************)
Txt(s) == [isString |-> TRUE, chars |-> s]
NoTxt == [isString |-> FALSE, chars |-> << >>]

TelA == Txt(<<1, 1, 9, 9, 1, 2, 3, 4, 5, 6, 7>>)                 \* 11991234567
TelAMask == Txt(<<NonDigit, 1, 1, NonDigit, 9, 9, 1, 2, 3, NonDigit, 4, 5, 6, 7>>)
TelB == Txt(<<2, 1, 3, 1, 2, 3, 4, 5, 6, 7>>)                    \* 2131234567
TelShort == Txt(<<1, 2, 3>>)

Ana == <<65, 110, 97>>                     \* "Ana"
AnaB == <<65, 110, 97, Sp, 66>>            \* "Ana B"
Bia == <<Sp, 66, 105, 97, Nbsp>>           \* " Bia "
Rua1 == <<82, 117, 97, Sp, 49>>            \* "Rua 1"
Rua2 == <<82, 117, 97, Nbsp, 50>>          \* "Rua 2"
Rua3 == <<82, 117, 97, Sp, 51>>            \* "Rua 3"
Portao == <<112, 111, 114, 116, 97, 111>>  \* "portao"

Item(nome, preco, quantidade) ==
  [nome |-> nome, preco |-> preco, quantidade |-> quantidade]

Cliente(tel, nome, endereco, referencia) ==
  [telefone |-> tel, telefoneFormatado |-> tel, nome |-> nome,
   endereco |-> endereco, referencia |-> referencia]

Pedido(temCliente, cliente, ehArray, itens, pagamento, troco) ==
  [temCliente |-> temCliente, cliente |-> cliente,
   carrinhoEhArray |-> ehArray, carrinho |-> itens,
   pagamento |-> pagamento, troco |-> troco]

CartOne == <<Item("burger", 1000, 2)>>
CartTwo == <<Item("burger", 1000, 2), Item("fritas", 550, 1)>>

\* The field troco: a text as typed ("50,00"), a JSON number (an amount in
\* centavos), or nothing.
Comma == 44                        \* ','
Minus == 45                        \* '-'
Dot == 46                          \* '.'

TrocoTexto(s) == [tipo |-> "texto", chars |-> s, centavos |-> 0]
TrocoNumero(c) == [tipo |-> "numero", chars |-> << >>, centavos |-> c]
SemTroco == [tipo |-> "ausente", chars |-> << >>, centavos |-> 0]

Cinquenta == TrocoTexto(<<5, 0, Comma, 0, 0>>)     \* "50,00"
Vinte == TrocoTexto(<<2, 0, Comma, 0, 0>>)         \* "20,00"

\* "" is a missing (falsy) pagamento.
ValidBodies ==
  { Pedido(TRUE, Cliente(TelAMask, AnaB, Rua2, Portao), TRUE, CartTwo,
           "Dinheiro", Cinquenta),
    Pedido(TRUE, Cliente(TelB, Bia, Rua3, << >>), TRUE, CartOne, "Cartao",
           SemTroco) }

InvalidBodies ==
  { Pedido(TRUE, Cliente(TelShort, Ana, Rua1, << >>), TRUE, CartOne, "Pix", SemTroco),
    Pedido(TRUE, Cliente(TelA, Ana, Rua1, << >>), TRUE, << >>, "Pix", SemTroco),
    Pedido(TRUE, Cliente(TelA, Ana, Rua1, << >>), FALSE, << >>, "Pix", SemTroco),
    Pedido(TRUE, Cliente(TelA, Ana, Rua1, << >>), TRUE, CartOne, "", SemTroco),
    Pedido(TRUE, Cliente(NoTxt, Ana, Rua1, << >>), TRUE, CartOne, "Pix", SemTroco) }

NoClienteBody ==
  Pedido(FALSE, Cliente(NoTxt, << >>, << >>, << >>), TRUE, CartOne, "Pix", SemTroco)

Bodies == ValidBodies \cup InvalidBodies \cup {NoClienteBody}

RawPhones == {TelA, TelAMask, TelB, TelShort}

Kinds == {"confirmacao", "entrega"}


(***************************************************************************)
(* State.                                                                  *)
(***************************************************************************)
VARIABLES
  revisao,          \* the revision of the server that is running
  whatsappStatus,   \* let whatsappStatus
  isDbReady,        \* let isDbReady (src/index.js, first revision)
  isInitializing,   \* let isInitializing (src/index.js)
  emCurso,          \* calls of initializeWhatsApp between the lock and the finally
  reinicios,        \* pending setTimeout(initializeWhatsApp, ...) timers
  clientes,         \* table clientes: telefone -> [nome, endereco, referencia]
  pedidos,          \* table pedidos: row i has id i (SERIAL)
  reqs,             \* POST /api/criar-pedido requests past their synchronous part
  tasks,            \* setTimeout callbacks: pending, running or finished
  conexoes,         \* clients taken from the pool: how often each was released
  setup,            \* the call of setupDatabase made at the start
  worker,           \* src/whatsapp-worker.js: the events of its client, its awaits
  parentPort,       \* the messages the worker has posted to the parent
  last              \* the answer of the request handled in this turn, if any

vars == <<revisao, whatsappStatus, isDbReady, isInitializing, emCurso, reinicios,
          clientes, pedidos, reqs, tasks, conexoes, setup, worker, parentPort,
          last>>

NoAnswer == [op |-> "", gate |-> "", resp |-> 0, canal |-> FALSE, banco |-> FALSE,
             isNew |-> FALSE, ids |-> << >>]

\* A store or channel call either succeeds or fails.
Outcomes == BOOLEAN

Running(t) == tasks[t].pc \in {"select", "send", "update"}
InFlight ==
  Cardinality({r \in DOMAIN reqs : reqs[r].pc # "done"})
  + Cardinality({t \in DOMAIN tasks : Running(t)})

(***************************************************************************)
(* Order Store: the SQL statements.                                        *)
(***************************************************************************)
\* Variant: ON CONFLICT (telefone) DO NOTHING.
UpsertClienteDoNothing(tabela, tel, nome, endereco, referencia) ==
  IF tel \in DOMAIN tabela THEN tabela
  ELSE [p \in (DOMAIN tabela) \cup {tel} |->
          IF p = tel
          THEN [nome |-> nome, endereco |-> endereco, referencia |-> referencia]
          ELSE tabela[p]]

\* INSERT INTO clientes ... ON CONFLICT (telefone) DO UPDATE SET ...
UpsertCliente(tabela, tel, nome, endereco, referencia) ==
  [p \in (DOMAIN tabela) \cup {tel} |->
     IF p = tel
     THEN [nome |-> nome, endereco |-> endereco, referencia |-> referencia]
     ELSE tabela[p]]

\* Variant: the insert also rewrites the snapshots of the customer's earlier rows.
InsertPedidoReplace(tabela, tel, dados) ==
  Append([i \in DOMAIN tabela |->
            IF tabela[i].cliente_telefone = tel
            THEN [tabela[i] EXCEPT !.dados_pedido = dados] ELSE tabela[i]],
         [cliente_telefone |-> tel, dados_pedido |-> dados,
          confirmacao |-> FALSE, entrega |-> FALSE])

\* INSERT INTO pedidos (cliente_telefone, dados_pedido) ... RETURNING id;
\* both flags take their DEFAULT false.
InsertPedido(tabela, tel, dados) ==
  Append(tabela, [cliente_telefone |-> tel, dados_pedido |-> dados,
                  confirmacao |-> FALSE, entrega |-> FALSE])

\* Variant: the SELECT names the column of the other kind.
SelectFlagOther(tabela, id, kind) ==
  IF kind = "confirmacao" THEN tabela[id].entrega ELSE tabela[id].confirmacao

\* SELECT mensagem_<kind>_enviada FROM pedidos WHERE id = $1
SelectFlag(tabela, id, kind) ==
  IF kind = "confirmacao" THEN tabela[id].confirmacao ELSE tabela[id].entrega

\* Variant: the UPDATE matches no row.
UpdateFlagNone(tabela, id, kind) == tabela

\* Variant: the UPDATE names the column of the other kind.
UpdateFlagOther(tabela, id, kind) ==
  IF kind = "confirmacao"
  THEN [tabela EXCEPT ![id].entrega = TRUE]
  ELSE [tabela EXCEPT ![id].confirmacao = TRUE]

\* UPDATE pedidos SET mensagem_<kind>_enviada = true WHERE id = $1
UpdateFlag(tabela, id, kind) ==
  IF kind = "confirmacao"
  THEN [tabela EXCEPT ![id].confirmacao = TRUE]
  ELSE [tabela EXCEPT ![id].entrega = TRUE]

\* Variant: the flag read is not tested.
ShouldSendAlways(lido) == TRUE

\* if (!result.rows[0].mensagem_<kind>_enviada)
ShouldSend(lido) == ~lido

\* SELECT id ... WHERE cliente_telefone = $1 ORDER BY criado_em DESC
HistoryIds(tabela, tel) ==
  LET ids == SelectSeq([i \in 1..Len(tabela) |-> i],
                       LAMBDA i : tabela[i].cliente_telefone = tel)
  IN  [i \in 1..Len(ids) |-> ids[Len(ids) + 1 - i]]

(***************************************************************************)
(* Channel Readiness Gate.                                                 *)
(***************************************************************************)
\* Variant: the readiness test is missing.
GateOpenAlways(status) == TRUE

\* if (whatsappStatus !== 'ready') return res.status(503)
GateOpen(status) == status = "ready"

\* Variant: the middleware tests the channel only.
checkServicesReadyNoDb(dbReady, status) == status = "ready"

\* checkServicesReady: 503 unless isDbReady and whatsappStatus === 'ready'
checkServicesReady(dbReady, status) == dbReady /\ status = "ready"

Admitted ==
  IF revisao = "index1" THEN checkServicesReady(isDbReady, whatsappStatus)
  ELSE GateOpen(whatsappStatus)

SetStatus(status) ==
  /\ whatsappStatus' = status
  /\ UNCHANGED <<revisao, worker, parentPort, emCurso, setup, conexoes, isDbReady, isInitializing, reinicios, clientes, pedidos,
                 reqs, tasks>>
  /\ last' = NoAnswer

\* whatsappStatus = ...; setTimeout(initializeWhatsApp, ...)
SetStatusAndRetry(status) ==
  /\ reinicios < MaxRetryTimers
  /\ whatsappStatus' = status
  /\ reinicios' = reinicios + 1
  /\ UNCHANGED <<revisao, worker, parentPort, emCurso, setup, conexoes, isDbReady, isInitializing, clientes, pedidos, reqs, tasks>>
  /\ last' = NoAnswer

\* client.on('qr'): only src/index.js records it
OnQr == revisao \in IndexRevisions /\ SetStatus("qr_pending")

\* client.on('authenticated'): only the second revision of src/index.js records it
OnAuthenticated == revisao = "index2" /\ SetStatus("authenticated")

\* client.on('ready')
OnReady == SetStatus("ready")

\* client.on('disconnected'): src/index.js also sets the timer of a new
\* initializeWhatsApp
OnDisconnected ==
  IF revisao \in StoreRevisions THEN SetStatus("disconnected")
  ELSE SetStatusAndRetry("disconnected")

\* client.on('auth_failure'): the first revision of src/index.js has no
\* handler, the second one also sets the timer of a new initializeWhatsApp
OnAuthFailure ==
  /\ revisao # "index1"
  /\ IF revisao \in StoreRevisions THEN SetStatus("disconnected")
     ELSE SetStatusAndRetry("auth_failed")

\* Variant: initializeWhatsApp without the test of isInitializing.
ReinitializeNoLock ==
  /\ revisao \in IndexRevisions
  /\ reinicios > 0
  /\ reinicios' = reinicios - 1
  /\ isInitializing' = TRUE
  /\ whatsappStatus' = "initializing"
  /\ emCurso' = emCurso + 1
  /\ UNCHANGED <<revisao, worker, parentPort, setup, conexoes, isDbReady, clientes, pedidos, reqs,
                 tasks>>
  /\ last' = [NoAnswer EXCEPT !.op = "inicializar", !.canal = ~isInitializing]

\* A timer calls initializeWhatsApp: it returns at once when an
\* initialization is in progress; otherwise it takes the lock, sets
\* 'initializing' and is suspended at client.destroy / client.initialize.
\* last.canal: the call went on to the channel client.
Reinitialize ==
  /\ revisao \in IndexRevisions
  /\ reinicios > 0
  /\ reinicios' = reinicios - 1
  /\ IF isInitializing
     THEN UNCHANGED <<isInitializing, whatsappStatus, emCurso>>
     ELSE /\ isInitializing' = TRUE
          /\ whatsappStatus' = "initializing"
          /\ emCurso' = emCurso + 1
  /\ UNCHANGED <<revisao, worker, parentPort, setup, conexoes, isDbReady, clientes, pedidos, reqs,
                 tasks>>
  /\ last' = [NoAnswer EXCEPT !.op = "inicializar", !.canal = ~isInitializing]

\* initializeWhatsApp resumes: client.initialize() resolved, or it or
\* client.destroy() rejected and the catch sets the timer of a new
\* initializeWhatsApp; finally { isInitializing = false }
InitializeSettled(ok) ==
  /\ revisao \in IndexRevisions
  /\ isInitializing
  /\ isInitializing' = FALSE
  /\ emCurso' = emCurso - 1
  /\ IF ok THEN UNCHANGED reinicios
     ELSE reinicios < MaxRetryTimers /\ reinicios' = reinicios + 1
  /\ UNCHANGED <<revisao, worker, parentPort, setup, conexoes, whatsappStatus, isDbReady, clientes,
                 pedidos, reqs, tasks>>
  /\ last' = NoAnswer

\* setupDatabase succeeds: isDbReady = true (src/index.js, first revision)
SetupDatabaseDone ==
  /\ revisao = "index1"
  /\ ~isDbReady
  /\ isDbReady' = TRUE
  /\ UNCHANGED <<revisao, worker, parentPort, emCurso, setup, conexoes, whatsappStatus, isInitializing, reinicios, clientes,
                 pedidos, reqs, tasks>>
  /\ last' = NoAnswer

(***************************************************************************)
(* The pool.  A client taken by pool.connect() is named after who took it: *)
(* <<"pedido", r>> the handler of request r, <<"timer", t>> the callback   *)
(* t, <<"setup", n>> the n-th attempt of setupDatabase.  conexoes counts   *)
(* the calls of release() on each.                                         *)
(***************************************************************************)
\* clientDB = await pool.connect()
Acquire(ledger, c) ==
  [k \in (DOMAIN ledger) \cup {c} |-> IF k = c THEN 0 ELSE ledger[k]]

\* if (clientDB) clientDB.release()
Release(ledger, c) ==
  IF c \in DOMAIN ledger THEN [ledger EXCEPT ![c] = @ + 1] ELSE ledger

\* The handler of criar-pedido: `let clientDB` is set when pool.connect
\* resolves and released in the finally, on the way out.
ReqLedger(r) ==
  IF reqs[r].pc = "connect" /\ reqs'[r].pc = "upsert"
  THEN Acquire(conexoes, <<"pedido", r>>)
  ELSE IF reqs'[r].pc = "done" THEN Release(conexoes, <<"pedido", r>>)
  ELSE conexoes

\* A callback of the order-flag revision: `const clientDB` of its try block
\* is set when pool.connect resolves; the clientDB of its finally is the one
\* of the handler that registered it.  The callbacks of src/index.js take
\* no client.
TaskLedger(t) ==
  IF tasks[t].pc = "pending" /\ tasks'[t].pc = "select"
  THEN Acquire(conexoes, <<"timer", t>>)
  ELSE IF revisao = "flags" /\ tasks'[t].pc = "done"
  THEN Release(conexoes, <<"pedido", tasks[t].req>>)
  ELSE conexoes

\* setupDatabase before its first await.
SetupStart ==
  [pc |-> "connect", retryCount |-> 0, clientDB |-> 0, tentativa |-> 1, espera |-> 0]

(***************************************************************************)
(* setupDatabase.  The order-flag revision makes one attempt and logs its  *)
(* failure; src/index.js (and src/unnamed/part_001) makes up to maxRetries *)
(* attempts, with `let clientDB` declared before the loop.  One step       *)
(* stands for the queries of an attempt.  pc: "connect" and "query" are    *)
(* the awaits of an attempt, "wait" the pause in the catch; "done": it     *)
(* returned; "logged": it returned after logging the failure; "failed":    *)
(* it threw after the last attempt; "threw": release() threw in the        *)
(* finally.  espera is the pause of the last catch, in milliseconds.       *)
(***************************************************************************)
maxRetries == 3                    \* const maxRetries = 3

\* finally { if (clientDB) clientDB.release(); } on the way to pc.  release()
\* of a client that was released before throws, and the error leaves
\* setupDatabase.
SetupFinally(s, pc) ==
  LET c == <<"setup", s.clientDB>>
  IN  /\ conexoes' = Release(conexoes, c)
      /\ setup' = IF c \in DOMAIN conexoes /\ conexoes[c] >= 1
                  THEN [s EXCEPT !.pc = "threw"]
                  ELSE IF pc = "connect"
                  THEN [s EXCEPT !.pc = pc, !.tentativa = @ + 1]
                  ELSE [s EXCEPT !.pc = pc]

\* catch (err): the order-flag revision logs; src/index.js counts the
\* attempt and pauses before the finally, or gives up.
SetupCatch ==
  IF revisao \in StoreRevisions THEN SetupFinally(setup, "logged")
  ELSE LET s == [setup EXCEPT !.retryCount = @ + 1]
       IN  IF s.retryCount < maxRetries
           THEN /\ setup' = [s EXCEPT !.pc = "wait", !.espera = 2000 * s.retryCount]
                /\ UNCHANGED conexoes
           ELSE SetupFinally(s, "failed")

\* clientDB = await pool.connect()
SetupConnect(ok) ==
  /\ setup.pc = "connect"
  /\ IF ok
     THEN /\ setup' = [setup EXCEPT !.pc = "query", !.clientDB = setup.tentativa]
          /\ conexoes' = Acquire(conexoes, <<"setup", setup.tentativa>>)
     ELSE SetupCatch
  /\ UNCHANGED <<revisao, worker, parentPort, emCurso, whatsappStatus, isDbReady, isInitializing, reinicios,
                 clientes, pedidos, reqs, tasks>>
  /\ last' = NoAnswer

\* await clientDB.query(...); the first revision of src/index.js then sets
\* isDbReady = true; return
SetupQuery(ok) ==
  /\ setup.pc = "query"
  /\ IF ok
     THEN /\ SetupFinally(setup, "done")
          /\ isDbReady' = (isDbReady \/ revisao = "index1")
     ELSE SetupCatch /\ UNCHANGED isDbReady
  /\ UNCHANGED <<revisao, worker, parentPort, emCurso, whatsappStatus, isInitializing, reinicios, clientes,
                 pedidos, reqs, tasks>>
  /\ last' = NoAnswer

\* await new Promise(resolve => setTimeout(resolve, 2000 * retryCount)) is
\* over: the finally, and the next attempt.
SetupPause ==
  /\ setup.pc = "wait"
  /\ SetupFinally(setup, "connect")
  /\ UNCHANGED <<revisao, worker, parentPort, emCurso, whatsappStatus, isDbReady, isInitializing, reinicios,
                 clientes, pedidos, reqs, tasks>>
  /\ last' = NoAnswer

(***************************************************************************)
(* POST /api/criar-pedido.                                                 *)
(***************************************************************************)
\* normalizarTelefone(cliente.telefone) in the order-flag revision,
\* normalizarTelefone(cliente.telefoneFormatado) in src/unnamed/part_002 and
\* in src/index.js
PhoneOf(body) ==
  IF revisao = "flags" THEN normalizarTelefone(body.cliente.telefone)
  ELSE IF revisao = "rawkey" THEN normalizarTelefone(body.cliente.telefoneFormatado)
  ELSE normalizarTelefoneIndex(body.cliente.telefoneFormatado)

\* The first parameter of the two INSERTs: telefoneNormalizado, but
\* cliente.telefone as sent in src/unnamed/part_002.
StoreKey(req) ==
  IF revisao = "rawkey" THEN req.body.cliente.telefone.chars ELSE req.tel

\* telefone is NOT NULL: the INSERT of a cliente.telefone that is missing fails.
StoreKeyOk(req) == revisao = "rawkey" => req.body.cliente.telefone.isString

\* Variant: the length of the cart is not tested.
InvalidOrderAnyCart(tel, body) ==
  \/ tel = Null
  \/ ~body.carrinhoEhArray
  \/ body.pagamento = ""

\* !telefoneNormalizado || !cliente || !Array.isArray(carrinho) || ...
InvalidOrder(tel, body) ==
  \/ tel = Null
  \/ ~body.carrinhoEhArray
  \/ Len(body.carrinho) = 0
  \/ body.pagamento = ""

\* pedido.cliente.telefoneFormatado = cliente.telefone (order-flag revision)
Snapshot(body) ==
  IF revisao = "flags"
  THEN [body EXCEPT !.cliente.telefoneFormatado = body.cliente.telefone]
  ELSE body

\* The parameters of the customer upsert.
UpsertParams(cliente) ==
  IF revisao = "index1"
  THEN [nome |-> OrEmpty(cleanInput(cliente.nome)),
        endereco |-> OrEmpty(cleanInput(cliente.endereco)),
        referencia |-> cleanInput(cliente.referencia)]
  ELSE [nome |-> cliente.nome, endereco |-> cliente.endereco,
        referencia |-> cliente.referencia]

\* Variant: the two delays are exchanged.
TimerDelaySwapped(kind) ==
  IF revisao \in StoreRevisions
  THEN (IF kind = "confirmacao" THEN DispatchDelay ELSE ConfDelay)
  ELSE (IF kind = "confirmacao" THEN DispatchDelayIndex ELSE ConfDelayIndex)

\* Variant: the delays are given in seconds.
TimerDelaySeconds(kind) == IF kind = "confirmacao" THEN 30 ELSE 30 * 60

TimerDelay(kind) ==
  IF revisao \in StoreRevisions
  THEN (IF kind = "confirmacao" THEN ConfDelay ELSE DispatchDelay)
  ELSE (IF kind = "confirmacao" THEN ConfDelayIndex ELSE DispatchDelayIndex)

NewReq(body, tel) ==
  [body |-> body, tel |-> tel, pc |-> "connect", pedidoId |-> 0,
   resp |-> 0, cupons |-> 0]

\* waited is the time since the timer was registered, kept up to the longest
\* delay.  aposEnvio: when the callback started, another callback of the same
\* order and kind had already sent its message and marked the flag.
NewTask(r, id, kind, remaining, dup) ==
  [req |-> r, pedidoId |-> id, kind |-> kind, remaining |-> remaining,
   waited |-> 0, pc |-> "pending", lido |-> FALSE, tentativas |-> 0,
   sends |-> 0, outcome |-> "none", dup |-> dup, aposEnvio |-> FALSE]

Answer(op, code) ==
  /\ last' = [NoAnswer EXCEPT !.op = op, !.gate = whatsappStatus, !.resp = code]
  /\ UNCHANGED <<revisao, worker, parentPort, emCurso, setup, conexoes, whatsappStatus, isDbReady, isInitializing, reinicios, clientes, pedidos, reqs, tasks>>

\* The synchronous part of the handler, up to `await pool.connect()`.
\* resp 0 with no request admitted: the handler threw before any response
\* (the phone of an undefined cliente).
Submit(body) ==
  IF ~Admitted THEN Answer("criar", 503)
  ELSE IF ~body.temCliente THEN Answer("criar", 0)
  ELSE LET tel == PhoneOf(body)
       IN  IF InvalidOrder(tel, body) THEN Answer("criar", 400)
           ELSE /\ Len(reqs) < MaxReq
                /\ InFlight < MaxInFlight
                /\ reqs' = Append(reqs, NewReq(Snapshot(body), tel))
                /\ UNCHANGED <<revisao, worker, parentPort, emCurso, setup, conexoes, whatsappStatus, isDbReady, isInitializing, reinicios, clientes,
                               pedidos, tasks>>
                /\ last' = NoAnswer

\* Variant: the catch answers as the success path does.
FailAnswersOk(r) ==
  reqs' = [reqs EXCEPT ![r].pc = "done", ![r].resp = 200]

\* catch (error) { res.status(500) ... }
Fail500(r) ==
  reqs' = [reqs EXCEPT ![r].pc = "done", ![r].resp = 500]

\* clientDB = await pool.connect()
ReqConnect(r, ok) ==
  /\ reqs[r].pc = "connect"
  /\ IF ok THEN reqs' = [reqs EXCEPT ![r].pc = "upsert"] ELSE Fail500(r)
  /\ UNCHANGED <<revisao, worker, parentPort, emCurso, setup, whatsappStatus, isDbReady, isInitializing, reinicios, clientes, pedidos, tasks>>
  /\ last' = NoAnswer
  /\ conexoes' = ReqLedger(r)

\* await clientDB.query(INSERT INTO clientes ...); src/index.js has no
\* order insert and goes on to the receipt.
ReqUpsert(r, ok) ==
  /\ reqs[r].pc = "upsert"
  /\ IF ok /\ StoreKeyOk(reqs[r])
     THEN LET p == UpsertParams(reqs[r].body.cliente)
          IN  /\ clientes' = UpsertCliente(clientes, StoreKey(reqs[r]), p.nome,
                                           p.endereco, p.referencia)
              /\ reqs' = [reqs EXCEPT
                            ![r].pc = IF revisao \in StoreRevisions
                                      THEN "insert" ELSE "send"]
     ELSE Fail500(r) /\ UNCHANGED clientes
  /\ UNCHANGED <<revisao, worker, parentPort, emCurso, setup, whatsappStatus, isDbReady, isInitializing, reinicios, pedidos, tasks>>
  /\ last' = NoAnswer
  /\ conexoes' = ReqLedger(r)

\* Variant: a failed insert is only logged and the handler goes on to the
\* receipt.
ReqInsertLogsFailure(r, ok) ==
  /\ reqs[r].pc = "insert"
  /\ IF ok
     THEN /\ pedidos' = InsertPedido(pedidos, StoreKey(reqs[r]), reqs[r].body)
          /\ reqs' = [reqs EXCEPT ![r].pc = "send", ![r].pedidoId = Len(pedidos) + 1]
     ELSE /\ reqs' = [reqs EXCEPT ![r].pc = "send"]
          /\ UNCHANGED pedidos
  /\ UNCHANGED <<revisao, worker, parentPort, emCurso, setup, whatsappStatus, isDbReady, isInitializing, reinicios, clientes, tasks>>
  /\ last' = NoAnswer
  /\ conexoes' = ReqLedger(r)

\* const resultPedido = await clientDB.query(INSERT INTO pedidos ...)
ReqInsert(r, ok) ==
  /\ reqs[r].pc = "insert"
  /\ IF ok
     THEN /\ pedidos' = InsertPedido(pedidos, StoreKey(reqs[r]), reqs[r].body)
          /\ reqs' = [reqs EXCEPT ![r].pc = "send", ![r].pedidoId = Len(pedidos) + 1]
     ELSE Fail500(r) /\ UNCHANGED pedidos
  /\ UNCHANGED <<revisao, worker, parentPort, emCurso, setup, whatsappStatus, isDbReady, isInitializing, reinicios, clientes, tasks>>
  /\ last' = NoAnswer
  /\ conexoes' = ReqLedger(r)

\* Variant: the two setTimeout calls stand before the send of the receipt.
ReqSendTimersFirst(r, ok) ==
  /\ reqs[r].pc = "send"
  /\ IF ok
     THEN reqs' = [reqs EXCEPT ![r].pc = "done", ![r].resp = 200,
                               ![r].cupons = @ + 1]
     ELSE Fail500(r)
  /\ tasks' = tasks \o
       << NewTask(r, reqs[r].pedidoId, "confirmacao",
                  TimerDelay("confirmacao"), FALSE),
          NewTask(r, reqs[r].pedidoId, "entrega",
                  TimerDelay("entrega"), FALSE) >>
  /\ UNCHANGED <<revisao, worker, parentPort, emCurso, setup, whatsappStatus, isDbReady,
                 isInitializing, reinicios, clientes, pedidos>>
  /\ last' = NoAnswer
  /\ conexoes' = ReqLedger(r)

\* await client.sendMessage(numero, cupom); then the two setTimeout calls and
\* res.status(200), all in the same turn.
ReqSend(r, ok) ==
  /\ reqs[r].pc = "send"
  /\ IF ok
     THEN /\ reqs' = [reqs EXCEPT ![r].pc = "done", ![r].resp = 200,
                                  ![r].cupons = @ + 1]
          /\ tasks' = tasks \o
               << NewTask(r, reqs[r].pedidoId, "confirmacao",
                          TimerDelay("confirmacao"), FALSE),
                  NewTask(r, reqs[r].pedidoId, "entrega",
                          TimerDelay("entrega"), FALSE) >>
     ELSE Fail500(r) /\ UNCHANGED tasks
  /\ UNCHANGED <<revisao, worker, parentPort, emCurso, setup, whatsappStatus, isDbReady, isInitializing, reinicios, clientes, pedidos>>
  /\ last' = NoAnswer
  /\ conexoes' = ReqLedger(r)

(***************************************************************************)
(* The timer callbacks.  The runtime calls a callback once, not before its *)
(* delay has elapsed.                                                      *)
(***************************************************************************)
Finish(t, outcome) ==
  tasks' = [tasks EXCEPT ![t].pc = "done", ![t].outcome = outcome]

SameJob(t, u) ==
  /\ t # u
  /\ tasks[t].pedidoId = tasks[u].pedidoId
  /\ tasks[t].kind = tasks[u].kind

\* The time since the delay of a timer elapsed.
Overdue(t) == tasks[t].waited - TimerDelay(tasks[t].kind)

\* The runtime calls the timers that are due in the order of their expiry:
\* a timer registered by a submission is not called while another one that
\* expired before it is waiting to be called.
DueFirst(t) ==
  tasks[t].dup \/
  \A u \in DOMAIN tasks :
     ~tasks[u].dup /\ tasks[u].pc = "pending" /\ tasks[u].remaining = 0
        => Overdue(u) <= Overdue(t)

\* Order-flag revision: the delay has elapsed, the callback starts and
\* `await pool.connect()` is settled.
TimerFire(t, ok) ==
  /\ revisao = "flags"
  /\ tasks[t].pc = "pending"
  /\ tasks[t].remaining = 0
  /\ DueFirst(t)
  /\ InFlight < MaxInFlight
  /\ LET apos == \E u \in DOMAIN tasks : SameJob(t, u) /\ tasks[u].outcome = "sent"
     IN  IF ok THEN tasks' = [tasks EXCEPT ![t].pc = "select", ![t].aposEnvio = apos]
         ELSE tasks' = [tasks EXCEPT ![t].pc = "done", ![t].aposEnvio = apos,
                                     ![t].outcome = "store_error"]
  /\ UNCHANGED <<revisao, worker, parentPort, emCurso, setup, whatsappStatus, isDbReady, isInitializing, reinicios, clientes, pedidos, reqs>>
  /\ last' = NoAnswer
  /\ conexoes' = TaskLedger(t)

\* src/unnamed/part_002: the delay has elapsed; the callback has no
\* statement.
TimerFireEmpty(t) ==
  /\ revisao = "rawkey"
  /\ tasks[t].pc = "pending"
  /\ tasks[t].remaining = 0
  /\ DueFirst(t)
  /\ tasks' = [tasks EXCEPT ![t].pc = "done"]
  /\ UNCHANGED <<revisao, worker, parentPort, emCurso, setup, conexoes, whatsappStatus, isDbReady, isInitializing, reinicios, clientes, pedidos, reqs>>
  /\ last' = NoAnswer

\* src/index.js: the delay has elapsed, the callback calls client.sendMessage.
TimerFireIndex(t) ==
  /\ revisao \in IndexRevisions
  /\ tasks[t].pc = "pending"
  /\ tasks[t].remaining = 0
  /\ DueFirst(t)
  /\ InFlight < MaxInFlight
  /\ tasks' = [tasks EXCEPT ![t].pc = "send"]
  /\ UNCHANGED <<revisao, worker, parentPort, emCurso, setup, conexoes, whatsappStatus, isDbReady, isInitializing, reinicios, clientes, pedidos, reqs>>
  /\ last' = NoAnswer

\* Variant: the UPDATE of the flag stands before the send.
FireSelectMarkFirst(t, ok) ==
  /\ tasks[t].pc = "select"
  /\ IF ok
     THEN LET lido == SelectFlag(pedidos, tasks[t].pedidoId, tasks[t].kind)
          IN  IF ShouldSend(lido)
              THEN /\ tasks' = [tasks EXCEPT ![t].pc = "send", ![t].lido = lido]
                   /\ pedidos' = UpdateFlag(pedidos, tasks[t].pedidoId, tasks[t].kind)
              ELSE /\ tasks' = [tasks EXCEPT ![t].pc = "done", ![t].lido = lido,
                                              ![t].outcome = "skipped"]
                   /\ UNCHANGED pedidos
     ELSE Finish(t, "store_error") /\ UNCHANGED pedidos
  /\ UNCHANGED <<revisao, worker, parentPort, emCurso, setup, whatsappStatus, isDbReady, isInitializing, reinicios, clientes, reqs>>
  /\ last' = NoAnswer
  /\ conexoes' = TaskLedger(t)

\* const result = await clientDB.query('SELECT mensagem_..._enviada ...')
\* and the test of the flag that follows it.
FireSelect(t, ok) ==
  /\ tasks[t].pc = "select"
  /\ IF ok
     THEN LET lido == SelectFlag(pedidos, tasks[t].pedidoId, tasks[t].kind)
          IN  IF ShouldSend(lido)
              THEN tasks' = [tasks EXCEPT ![t].pc = "send", ![t].lido = lido]
              ELSE tasks' = [tasks EXCEPT ![t].pc = "done", ![t].lido = lido,
                                          ![t].outcome = "skipped"]
     ELSE Finish(t, "store_error")
  /\ UNCHANGED <<revisao, worker, parentPort, emCurso, setup, whatsappStatus, isDbReady, isInitializing, reinicios, clientes, pedidos, reqs>>
  /\ last' = NoAnswer
  /\ conexoes' = TaskLedger(t)

\* Variant: the failure of the send is swallowed and the callback goes on to
\* the UPDATE.
FireSendMarkAnyway(t, ok) ==
  /\ tasks[t].pc = "send"
  /\ tasks' = [tasks EXCEPT
                 ![t].pc = IF revisao = "flags" THEN "update" ELSE "done",
                 ![t].outcome = IF revisao = "flags" THEN @ ELSE "sent",
                 ![t].tentativas = @ + 1,
                 ![t].sends = IF ok THEN @ + 1 ELSE @]
  /\ UNCHANGED <<revisao, worker, parentPort, emCurso, setup, whatsappStatus, isDbReady, isInitializing, reinicios, clientes, pedidos, reqs>>
  /\ last' = NoAnswer
  /\ conexoes' = TaskLedger(t)

\* Variant: a send that failed is tried again after the delay of its kind.
FireSendRetry(t, ok) ==
  /\ tasks[t].pc = "send"
  /\ IF ok
     THEN tasks' = [tasks EXCEPT
                      ![t].pc = IF revisao = "flags" THEN "update" ELSE "done",
                      ![t].outcome = IF revisao = "flags" THEN @ ELSE "sent",
                      ![t].tentativas = @ + 1, ![t].sends = @ + 1]
     ELSE tasks' = [tasks EXCEPT ![t].pc = "pending", ![t].remaining = 0]
  /\ UNCHANGED <<revisao, worker, parentPort, emCurso, setup, whatsappStatus, isDbReady, isInitializing, reinicios,
                 clientes, pedidos, reqs>>
  /\ last' = NoAnswer
  /\ conexoes' = TaskLedger(t)

\* await client.sendMessage(numero, msg); the order-flag revision goes on to
\* the UPDATE, src/index.js is done.
FireSend(t, ok) ==
  /\ tasks[t].pc = "send"
  /\ IF ok
     THEN tasks' = [tasks EXCEPT
                      ![t].pc = IF revisao = "flags" THEN "update" ELSE "done",
                      ![t].outcome = IF revisao = "flags" THEN @ ELSE "sent",
                      ![t].tentativas = @ + 1, ![t].sends = @ + 1]
     ELSE tasks' = [tasks EXCEPT ![t].pc = "done", ![t].tentativas = @ + 1,
                                 ![t].outcome = "send_failed"]
  /\ UNCHANGED <<revisao, worker, parentPort, emCurso, setup, whatsappStatus, isDbReady, isInitializing, reinicios, clientes, pedidos, reqs>>
  /\ last' = NoAnswer
  /\ conexoes' = TaskLedger(t)

\* await clientDB.query('UPDATE pedidos SET mensagem_..._enviada = true ...')
FireUpdate(t, ok) ==
  /\ tasks[t].pc = "update"
  /\ IF ok
     THEN /\ pedidos' = UpdateFlag(pedidos, tasks[t].pedidoId, tasks[t].kind)
          /\ Finish(t, "sent")
     ELSE /\ Finish(t, "update_failed")
          /\ UNCHANGED pedidos
  /\ UNCHANGED <<revisao, worker, parentPort, emCurso, setup, whatsappStatus, isDbReady, isInitializing, reinicios, clientes, reqs>>
  /\ last' = NoAnswer
  /\ conexoes' = TaskLedger(t)

(***************************************************************************)
(* Time.  Advance moves the clock of every pending timer to the expiry of  *)
(* one of them.  Expire is the same seen from one timer alone: its delay   *)
(* elapses, whatever the other timers do.                                  *)
(***************************************************************************)
PendingRemaining ==
  {tasks[t].remaining : t \in {u \in DOMAIN tasks : tasks[u].pc = "pending"}}

AdvanceSteps == {d \in PendingRemaining : d > 0}

Expire(t) ==
  /\ tasks[t].pc = "pending"
  /\ tasks[t].remaining > 0
  /\ tasks' = [tasks EXCEPT ![t].remaining = 0,
                            ![t].waited = Min(DispatchDelay, @ + tasks[t].remaining)]
  /\ UNCHANGED <<revisao, worker, parentPort, emCurso, setup, conexoes, whatsappStatus, isDbReady, isInitializing, reinicios, clientes, pedidos, reqs>>
  /\ last' = NoAnswer

Advance(d) ==
  /\ tasks' = [t \in DOMAIN tasks |->
                 IF tasks[t].pc = "pending"
                 THEN [tasks[t] EXCEPT !.remaining = Max(0, @ - d),
                                       !.waited = Min(DispatchDelay, @ + d)]
                 ELSE tasks[t]]
  /\ UNCHANGED <<revisao, worker, parentPort, emCurso, setup, conexoes, whatsappStatus, isDbReady, isInitializing, reinicios, clientes, pedidos, reqs>>
  /\ last' = NoAnswer

(***************************************************************************)
(* POST /api/identificar-cliente.  registrado is the answer of             *)
(* client.isRegisteredUser.  The order-flag revision has no readiness test *)
(* on this route; src/index.js has the same test as on criar-pedido.       *)
(***************************************************************************)
IdentifyGate == revisao = "flags" \/ Admitted

\* src/unnamed/part_002: the key of the lookup is built from the text as
\* sent: '55', its first two characters, and its digits from the third on,
\* less the first of them when they are nine.  null: the 400 of fewer than
\* eight such digits.
telefoneNormalizadoDB(telefone) ==
  LET telefoneLimpoSemDDD ==
        LET limpo == SelectSeq(telefone.chars, IsDigit)
        IN  SubSeq(limpo, 3, Len(limpo))
  IN  IF Len(telefoneLimpoSemDDD) < 8 THEN Null
      ELSE <<5, 5>> \o SubSeq(telefone.chars, 1, Min(2, Len(telefone.chars)))
                   \o (IF Len(telefoneLimpoSemDDD) = 9
                       THEN Tail(telefoneLimpoSemDDD) ELSE telefoneLimpoSemDDD)

IdentifyPhone(raw) ==
  IF revisao = "flags" THEN normalizarTelefone(raw)
  ELSE IF revisao = "rawkey" THEN telefoneNormalizadoDB(raw)
  ELSE normalizarTelefoneIndex(raw)

Identify(raw, registrado, dbOk) ==
  LET tel == IdentifyPhone(raw)
      base == [NoAnswer EXCEPT !.op = "identificar", !.gate = whatsappStatus,
                               !.resp = 400]
  IN
  /\ last' =
       IF ~IdentifyGate THEN [base EXCEPT !.resp = 503]
       \* telefone.replace of a value that is no text throws before any answer
       ELSE IF revisao = "rawkey" /\ ~raw.isString THEN [base EXCEPT !.resp = 0]
       ELSE IF tel = Null THEN base
       ELSE IF registrado = "erro" THEN [base EXCEPT !.resp = 500, !.canal = TRUE]
       ELSE IF registrado = "nao" THEN [base EXCEPT !.canal = TRUE]
       ELSE IF ~dbOk THEN [base EXCEPT !.resp = 500, !.canal = TRUE, !.banco = TRUE]
       ELSE [base EXCEPT !.resp = 200, !.canal = TRUE, !.banco = TRUE,
                         !.isNew = (tel \notin DOMAIN clientes)]
  /\ UNCHANGED <<revisao, worker, parentPort, emCurso, setup, conexoes, whatsappStatus, isDbReady, isInitializing, reinicios, clientes, pedidos, reqs, tasks>>

(***************************************************************************)
(* GET /api/historico/:telefone, the revisions with the table pedidos.     *)
(***************************************************************************)
History(raw, dbOk) ==
  LET tel == normalizarTelefone(raw)
      base == [NoAnswer EXCEPT !.op = "historico", !.gate = whatsappStatus,
                               !.resp = 400]
  IN
  /\ revisao \in StoreRevisions
  /\ last' =
       IF tel = Null THEN base
       ELSE IF ~dbOk THEN [base EXCEPT !.resp = 500, !.banco = TRUE]
       ELSE [base EXCEPT !.resp = 200, !.banco = TRUE,
                         !.ids = HistoryIds(pedidos, tel)]
  /\ UNCHANGED <<revisao, worker, parentPort, emCurso, setup, conexoes, whatsappStatus, isDbReady, isInitializing, reinicios, clientes, pedidos, reqs, tasks>>

(***************************************************************************)
(* GET /health, the first revision of src/index.js.                        *)
(***************************************************************************)
Health ==
  /\ revisao = "index1"
  /\ last' = [op |-> "health", gate |-> whatsappStatus, resp |-> 200,
              status |-> IF isDbReady /\ whatsappStatus = "ready"
                         THEN "healthy" ELSE "degraded",
              whatsapp |-> whatsappStatus,
              database |-> IF isDbReady THEN "connected"
                           ELSE "connecting_or_failed"]
  /\ UNCHANGED <<revisao, worker, parentPort, emCurso, setup, conexoes, whatsappStatus, isDbReady, isInitializing, reinicios, clientes, pedidos, reqs, tasks>>

(***************************************************************************)
(* src/whatsapp-worker.js.  The client emits its events in any order; the  *)
(* listeners of 'qr', 'ready' and 'disconnected' post at once, the         *)
(* listener of 'authenticated' posts after `await this.saveSession`.       *)
(* worker.emitidos: the events emitted so far; worker.salvando: the        *)
(* listeners of 'authenticated' suspended at that await; worker.recebidas: *)
(* the 'send_message' requests received.                                   *)
(***************************************************************************)
WorkerStart == [emitidos |-> << >>, salvando |-> 0, recebidas |-> 0]

ClientEvents == {"qr", "authenticated", "ready", "disconnected"}

\* What the parent may post: a request to send, or a message of a type the
\* listener does not know.
ParentMessages ==
  [type : {"send_message", "ping"},
   number : {normalizarTelefone(TelA), normalizarTelefone(TelB)}]

\* this.client.on(event, ...): the listener of the event up to its first
\* await.
ClientEmit(event) ==
  /\ Len(worker.emitidos) < MaxEvents
  /\ worker' = [worker EXCEPT
                  !.emitidos = Append(@, event),
                  !.salvando = IF event = "authenticated" THEN @ + 1 ELSE @]
  /\ parentPort' = IF event = "authenticated" THEN parentPort
                   ELSE Append(parentPort, [type |-> event, number |-> Null])
  /\ UNCHANGED <<revisao, whatsappStatus, isDbReady, isInitializing, emCurso, reinicios,
                 clientes, pedidos, reqs, tasks, conexoes, setup>>
  /\ last' = NoAnswer

\* await this.saveSession(session) settles: fs.writeFile resolved and the
\* listener posts, or it rejected and the listener ends there.
SaveSessionSettled(ok) ==
  /\ worker.salvando > 0
  /\ worker' = [worker EXCEPT !.salvando = @ - 1]
  /\ parentPort' = IF ok
                   THEN Append(parentPort, [type |-> "authenticated", number |-> Null])
                   ELSE parentPort
  /\ UNCHANGED <<revisao, whatsappStatus, isDbReady, isInitializing, emCurso, reinicios,
                 clientes, pedidos, reqs, tasks, conexoes, setup>>
  /\ last' = NoAnswer

\* parentPort.on('message', async (message) => ...): `this` of an arrow
\* function at the top level of a module is undefined, so `this.client`
\* throws inside the try before any send, and the catch posts the error.
OnMessage(message) ==
  /\ worker.recebidas < MaxMessages
  /\ IF message.type = "send_message"
     THEN /\ worker' = [worker EXCEPT !.recebidas = @ + 1]
          /\ parentPort' = Append(parentPort, [type |-> "error", number |-> Null])
     ELSE UNCHANGED <<worker, parentPort>>
  /\ UNCHANGED <<revisao, whatsappStatus, isDbReady, isInitializing, emCurso, reinicios,
                 clientes, pedidos, reqs, tasks, conexoes, setup>>
  /\ last' = [NoAnswer EXCEPT !.op = message.type]

(***************************************************************************)
(* The tables outlive the process.  A run of the order-flag revision       *)
(* starts on empty tables or on the tables an earlier run left: one order  *)
(* of Ana whose confirmation was sent and whose dispatch message was not.  *)
(* src/index.js keeps no order rows.                                       *)
(***************************************************************************)
OldBody ==
  LET body == Pedido(TRUE, Cliente(TelA, Ana, Rua1, << >>), TRUE, CartOne, "Pix",
                     SemTroco)
  IN  [body EXCEPT !.cliente.telefoneFormatado = body.cliente.telefone]

OldTel == normalizarTelefone(OldBody.cliente.telefone)

PersistedStores ==
  { [clientes |-> << >>, pedidos |-> << >>],
    [clientes |-> UpsertCliente(<< >>, OldTel, Ana, Rua1, << >>),
     pedidos |-> UpdateFlag(InsertPedido(<< >>, OldTel, OldBody), 1, "confirmacao")] }

\* The customer of the earlier run as src/index.js keys it.
OldTelIndex == normalizarTelefoneIndex(OldBody.cliente.telefoneFormatado)

PersistedClientesIndex ==
  { << >>, UpsertCliente(<< >>, OldTelIndex, Ana, Rua1, << >>) }

Boot(revs) ==
  /\ revisao \in revs
  /\ whatsappStatus = "initializing"
  /\ isDbReady = FALSE
  /\ isInitializing = (revisao \in IndexRevisions)
  /\ emCurso = IF revisao \in IndexRevisions THEN 1 ELSE 0
  /\ reinicios = 0
  /\ \/ /\ revisao = "flags"
        /\ \E store \in PersistedStores :
              clientes = store.clientes /\ pedidos = store.pedidos
     \/ /\ revisao \in IndexRevisions
        /\ clientes \in PersistedClientesIndex
        /\ pedidos = << >>
     \/ /\ revisao = "rawkey"
        /\ clientes = << >>
        /\ pedidos = << >>
  /\ reqs = << >>
  /\ tasks = << >>
  /\ conexoes = << >>
  /\ setup = SetupStart
  /\ worker = WorkerStart
  /\ parentPort = << >>
  /\ last = NoAnswer

Init == Boot({"flags"})

InitAll == Boot(Revisions)

(***************************************************************************)
(* The order-flag revision as it runs: every timer fires once.             *)
(***************************************************************************)
GateFlags ==
  \/ OnReady
  \/ OnDisconnected
  \/ OnAuthFailure

GateIndex ==
  \/ OnQr
  \/ OnAuthenticated
  \/ Reinitialize
  \/ \E ok \in Outcomes : InitializeSettled(ok)
  \/ SetupDatabaseDone

\* The steps of an admitted submission.
Handling ==
  \/ \E r \in DOMAIN reqs, ok \in Outcomes : ReqConnect(r, ok)
  \/ \E r \in DOMAIN reqs, ok \in Outcomes : ReqUpsert(r, ok)
  \/ \E r \in DOMAIN reqs, ok \in Outcomes : ReqInsert(r, ok)
  \/ \E r \in DOMAIN reqs, ok \in Outcomes : ReqSend(r, ok)

\* Submissions of well-formed orders, at any state of the gate.
Orders ==
  \/ \E body \in ValidBodies : Submit(body)
  \/ Handling

Firings ==
  \/ \E t \in DOMAIN tasks, ok \in Outcomes : TimerFire(t, ok)
  \/ \E t \in DOMAIN tasks, ok \in Outcomes : FireSelect(t, ok)
  \/ \E t \in DOMAIN tasks, ok \in Outcomes : FireSend(t, ok)
  \/ \E t \in DOMAIN tasks, ok \in Outcomes : FireUpdate(t, ok)

Lookups ==
  \/ \E raw \in RawPhones, registrado \in {"sim", "nao", "erro"}, dbOk \in BOOLEAN :
       Identify(raw, registrado, dbOk)
  \/ \E raw \in RawPhones, dbOk \in BOOLEAN : History(raw, dbOk)

Next ==
  \/ GateFlags
  \/ Orders
  \/ Firings
  \/ \E t \in DOMAIN tasks : Expire(t)

Spec == Init /\ [][Next]_vars

(***************************************************************************)
(* The same while the process lives, with what the runtime guarantees: the *)
(* delay of a timer elapses, a timer whose delay has elapsed is called,    *)
(* and an await of a handler or of a callback settles.                     *)
(***************************************************************************)
SpecFair ==
  /\ Init
  /\ [][Next]_vars
  /\ WF_vars(Handling)
  /\ WF_vars(Firings)
  /\ WF_vars(\E t \in DOMAIN tasks : Expire(t))

(***************************************************************************)
(* Every revision from its start: setupDatabase, the submissions and the   *)
(* timers.                                                                 *)
(***************************************************************************)
Startup ==
  \/ \E ok \in Outcomes : SetupConnect(ok)
  \/ \E ok \in Outcomes : SetupQuery(ok)
  \/ SetupPause

NextPool ==
  \/ GateFlags
  \/ Startup
  \/ Orders
  \/ Firings
  \/ \E t \in DOMAIN tasks : TimerFireIndex(t)
  \/ \E t \in DOMAIN tasks : Expire(t)

SpecPool == InitAll /\ [][NextPool]_vars

(***************************************************************************)
(* The first revision of src/index.js from its start: setupDatabase and    *)
(* the channel events run side by side while the routes are called.        *)
(***************************************************************************)
NextHealth ==
  \/ OnQr
  \/ OnReady
  \/ OnDisconnected
  \/ Startup
  \/ \E body \in Bodies : Submit(body)
  \/ \E raw \in RawPhones, registrado \in {"sim", "nao", "erro"}, dbOk \in BOOLEAN :
       Identify(raw, registrado, dbOk)
  \/ Health

SpecHealth == Boot({"index1"}) /\ [][NextHealth]_vars

(***************************************************************************)
(* The worker thread alone.                                                *)
(***************************************************************************)
NextWorker ==
  \/ \E event \in ClientEvents : ClientEmit(event)
  \/ \E ok \in Outcomes : SaveSessionSettled(ok)
  \/ \E message \in ParentMessages : OnMessage(message)

SpecWorker == Init /\ [][NextWorker]_vars

(***************************************************************************)
(* Every revision, with the two lookups.                                   *)
(***************************************************************************)
NextLookup ==
  \/ Next
  \/ GateIndex
  \/ \E t \in DOMAIN tasks : TimerFireIndex(t)
  \/ Lookups

SpecLookup == InitAll /\ [][NextLookup]_vars

(***************************************************************************)
(* Every revision, with one clock for all timers.                          *)
(***************************************************************************)
NextTime ==
  \/ GateFlags
  \/ GateIndex
  \/ Orders
  \/ Firings
  \/ \E t \in DOMAIN tasks : TimerFireIndex(t)
  \/ \E d \in AdvanceSteps : Advance(d)

SpecTime == InitAll /\ [][NextTime]_vars

(***************************************************************************)
(* Every revision up to the registration of the timers: the gate and the   *)
(* submissions, well-formed or not.                                        *)
(***************************************************************************)
NextGate ==
  \/ GateFlags
  \/ GateIndex
  \/ \E body \in Bodies : Submit(body)
  \/ Handling

SpecGate == InitAll /\ [][NextGate]_vars

(***************************************************************************)
(* The same, with what the runtime guarantees: a timer that was set fires, *)
(* an await of a handler settles, and (the assumption of the recovery      *)
(* cycle) an initialization in progress terminates.  The events of the     *)
(* channel client and the requests are up to the outside world.            *)
(***************************************************************************)
SpecRecovery ==
  /\ InitAll
  /\ [][NextGate]_vars
  /\ WF_vars(Reinitialize)
  /\ WF_vars(\E ok \in Outcomes : InitializeSettled(ok))
  /\ WF_vars(Handling)

(***************************************************************************)
(* src/unnamed/part_002 with its lookups.                                  *)
(***************************************************************************)
InitKeys == Boot({"rawkey"})

NextKeys ==
  \/ GateFlags
  \/ Orders
  \/ Lookups
  \/ \E t \in DOMAIN tasks : Expire(t)
  \/ \E t \in DOMAIN tasks : TimerFireEmpty(t)

SpecKeys == InitKeys /\ [][NextKeys]_vars

(***************************************************************************)
(* normalizarTelefone alone: one call on one argument.  The arguments are  *)
(* texts made of an optional country code, an area code and a subscriber   *)
(* number of 6 to 10 digits, written with or without other characters,     *)
(* and values that are no text (a JSON number, a missing field).           *)
(***************************************************************************)
Num(s) == [isString |-> FALSE, chars |-> s]

Subscriber(first, n) == <<first>> \o [i \in 1..(n - 1) |-> i]

PhoneTexts ==
  { pre \o ddd \o Subscriber(first, n) :
      pre \in {<< >>, <<5, 5>>, <<NonDigit, 5, 5, NonDigit>>},
      ddd \in {<<1, 1>>, <<5, 5>>, <<NonDigit, 2, 1, NonDigit>>},
      first \in {9, 3},
      n \in 6..10 }

PhoneArgs ==
  {Txt(s) : s \in PhoneTexts \cup {<< >>, <<NonDigit, NonDigit>>}}
  \cup {Num(s) : s \in {<< >>, TelA.chars, TelB.chars}}

\* The normalizarTelefone of the revision that is running.
Normalizer(telefone) ==
  IF revisao \in IndexRevisions THEN normalizarTelefoneIndex(telefone)
  ELSE normalizarTelefone(telefone)

Again(chave) == IF chave = Null THEN Null ELSE Normalizer(Txt(chave))

InitPhone ==
  /\ revisao \in Revisions
  /\ whatsappStatus = "initializing"
  /\ isDbReady = FALSE
  /\ isInitializing = FALSE
  /\ emCurso = 0
  /\ reinicios = 0
  /\ clientes = << >>
  /\ pedidos = << >>
  /\ reqs = << >>
  /\ tasks = << >>
  /\ conexoes = << >>
  /\ setup = SetupStart
  /\ worker = WorkerStart
  /\ parentPort = << >>
  /\ \E telefone \in PhoneArgs :
        last = [op |-> "chamada", telefone |-> telefone, chave |-> Null,
                denovo |-> Null]

\* normalizarTelefone(telefone), and normalizarTelefone of its result
Normalize ==
  /\ last.op = "chamada"
  /\ last' = [last EXCEPT !.op = "retorno",
                          !.chave = Normalizer(last.telefone),
                          !.denovo = Again(Normalizer(last.telefone))]
  /\ UNCHANGED <<revisao, worker, parentPort, emCurso, setup, conexoes, whatsappStatus, isDbReady, isInitializing, reinicios,
                 clientes, pedidos, reqs, tasks>>

SpecPhone == InitPhone /\ [][Normalize]_vars

(***************************************************************************)
(* gerarCupomFiscal.  An amount is a whole number of centavos: the sums    *)
(* and differences the function makes of such amounts stay far from half   *)
(* a centavo, so toFixed(2) prints them exactly.  A text of an amount is a *)
(* sequence of digits 0..9 and of the characters Comma, Dot and Minus.     *)
(* The receipt is the record of its lines; now is the clock in seconds.    *)
(***************************************************************************)
taxaEntrega == 500                 \* const taxaEntrega = 5.00

Abs(n) == IF n < 0 THEN -n ELSE n

RECURSIVE Digits(_)
Digits(n) == IF n < 10 THEN <<n>> ELSE Digits(n \div 10) \o <<n % 10>>

RECURSIVE Val(_)
Val(d) == IF d = << >> THEN 0 ELSE Val(SubSeq(d, 1, Len(d) - 1)) * 10 + d[Len(d)]

RECURSIVE LeadingDigits(_)
LeadingDigits(s) ==
  IF s # << >> /\ IsDigit(Head(s))
  THEN <<Head(s)>> \o LeadingDigits(Tail(s)) ELSE << >>

\* n.toFixed(2)
toFixed2(n) ==
  (IF n < 0 THEN <<Minus>> ELSE << >>)
     \o Digits(Abs(n) \div 100) \o <<Dot, (Abs(n) % 100) \div 10, Abs(n) % 10>>

\* String(n), as a template literal prints a number: 50 is "50", 50.5 "50.5"
NumberText(n) ==
  LET f == n % 100
  IN  Digits(n \div 100)
         \o (IF f = 0 THEN << >>
             ELSE IF f % 10 = 0 THEN <<Dot, f \div 10>>
             ELSE <<Dot, f \div 10, f % 10>>)

\* s.replace(a, b) with a text a: the first occurrence only
RECURSIVE ReplaceFirst(_, _, _)
ReplaceFirst(s, a, b) ==
  IF s = << >> THEN s
  ELSE IF Head(s) = a THEN <<b>> \o Tail(s)
  ELSE <<Head(s)>> \o ReplaceFirst(Tail(s), a, b)

\* parseFloat of a text that begins a decimal numeral: an optional sign,
\* digits, and the digits (two of them kept) after a dot; what follows is
\* ignored.
parseFloat(s) ==
  LET negativo == s # << >> /\ Head(s) = Minus
      t == IF negativo THEN Tail(s) ELSE s
      inteiro == LeadingDigits(t)
      resto == SubSeq(t, Len(inteiro) + 1, Len(t))
      fracao == IF resto # << >> /\ Head(resto) = Dot
                THEN LeadingDigits(Tail(resto)) ELSE << >>
      valor == Val(inteiro) * 100 + Val(SubSeq(fracao \o <<0, 0>>, 1, 2))
  IN  IF negativo THEN -valor ELSE valor

\* `${x.toFixed(2).replace('.', ',')}`
Money(n) == ReplaceFirst(toFixed2(n), Dot, Comma)

\* Variant: the quantity of a line is not counted.
reduceSemQuantidade(carrinho) ==
  LET RECURSIVE soma(_)
      soma(k) == IF k = 0 THEN 0 ELSE soma(k - 1) + carrinho[k].preco
  IN  soma(Len(carrinho))

\* carrinho.reduce((total, item) => total + (item.preco * item.quantidade), 0)
reduce(carrinho) ==
  LET RECURSIVE soma(_)
      soma(k) == IF k = 0 THEN 0
                 ELSE soma(k - 1) + carrinho[k].preco * carrinho[k].quantidade
  IN  soma(Len(carrinho))

\* A value in a condition: '' and 0 and undefined are false.
Truthy(troco) ==
  \/ troco.tipo = "texto" /\ troco.chars # << >>
  \/ troco.tipo = "numero" /\ troco.centavos # 0

\* The call ended in a TypeError: no text is returned.
Thrown ==
  [threw |-> TRUE, dataHora |-> 0, nome |-> << >>, itens |-> << >>,
   subtotal |-> << >>, taxa |-> << >>, total |-> << >>, endereco |-> << >>,
   referencia |-> << >>, pagamento |-> "", trocoPara |-> << >>, levar |-> << >>]

\* The heading holds the date, the hour and the minute of `new Date()`.  The
\* order-flag revision parses troco (troco.replace: a TypeError when it is
\* no text) and prints the change; src/index.js prints troco as it came.
gerarCupomFiscal(pedido, now) ==
  LET subtotal == reduce(pedido.carrinho)
      total == subtotal + taxaEntrega
      cupom ==
        [threw |-> FALSE,
         dataHora |-> now \div 60,
         nome |-> pedido.cliente.nome,
         itens |-> [i \in DOMAIN pedido.carrinho |->
                      [quantidade |-> pedido.carrinho[i].quantidade,
                       nome |-> pedido.carrinho[i].nome,
                       preco |-> Money(pedido.carrinho[i].preco
                                         * pedido.carrinho[i].quantidade)]],
         subtotal |-> Money(subtotal),
         taxa |-> Money(taxaEntrega),
         total |-> Money(total),
         endereco |-> pedido.cliente.endereco,
         referencia |-> pedido.cliente.referencia,
         pagamento |-> pedido.pagamento,
         trocoPara |-> << >>,
         levar |-> << >>]
  IN  IF ~(pedido.pagamento = "Dinheiro" /\ Truthy(pedido.troco)) THEN cupom
      ELSE IF revisao \in IndexRevisions
      THEN [cupom EXCEPT !.trocoPara =
                            IF pedido.troco.tipo = "texto" THEN pedido.troco.chars
                            ELSE NumberText(pedido.troco.centavos)]
      ELSE IF pedido.troco.tipo # "texto" THEN Thrown
      ELSE LET dado == parseFloat(ReplaceFirst(pedido.troco.chars, Comma, Dot))
           IN  [cupom EXCEPT !.trocoPara = Money(dado),
                             !.levar = Money(dado - total)]

(***************************************************************************)
(* gerarCupomFiscal alone: calls on one order while the clock runs.  The   *)
(* carts have up to MaxLines lines; the amount given is a text, a number   *)
(* or missing.                                                             *)
(***************************************************************************)
RenderItems ==
  { Item("burger", 1000, 2), Item("fritas", 550, 1), Item("agua", 0, 3),
    Item("molho", 199, 0) }

RenderCarts == UNION {[1..n -> RenderItems] : n \in 0..MaxLines}

RenderTrocos ==
  { SemTroco, Cinquenta, Vinte, TrocoTexto(<<5, 0>>), TrocoTexto(<< >>),
    TrocoNumero(5000), TrocoNumero(2000), TrocoNumero(0) }

RenderOrders ==
  { Pedido(TRUE, Cliente(TelA, Ana, Rua1, << >>), TRUE, carrinho, pagamento, troco) :
      carrinho \in RenderCarts, pagamento \in {"Dinheiro", "Pix"},
      troco \in RenderTrocos }

InitRender ==
  /\ revisao \in Revisions
  /\ whatsappStatus = "ready"
  /\ isDbReady = FALSE
  /\ isInitializing = FALSE
  /\ emCurso = 0
  /\ reinicios = 0
  /\ clientes = << >>
  /\ pedidos = << >>
  /\ reqs = << >>
  /\ tasks = << >>
  /\ conexoes = << >>
  /\ setup = SetupStart
  /\ worker = WorkerStart
  /\ parentPort = << >>
  /\ \E pedido \in RenderOrders :
        last = [op |-> "cupom", pedido |-> pedido, agora |-> 0, cupons |-> << >>]

\* gerarCupomFiscal(pedido)
Render ==
  /\ last.op = "cupom"
  /\ Len(last.cupons) < MaxCalls
  /\ last' = [last EXCEPT
                !.cupons = Append(@, gerarCupomFiscal(last.pedido, last.agora))]
  /\ UNCHANGED <<revisao, worker, parentPort, emCurso, setup, conexoes, whatsappStatus, isDbReady, isInitializing, reinicios,
                 clientes, pedidos, reqs, tasks>>

\* Half a minute goes by.
Tick ==
  /\ last.op = "cupom"
  /\ last.agora < MaxClock
  /\ last' = [last EXCEPT !.agora = @ + 30]
  /\ UNCHANGED <<revisao, worker, parentPort, emCurso, setup, conexoes, whatsappStatus, isDbReady, isInitializing, reinicios,
                 clientes, pedidos, reqs, tasks>>

NextRender == Render \/ Tick

SpecRender == InitRender /\ [][NextRender]_vars

(***************************************************************************)
(* Re-arming (spec.md 4.4: "the scheduler may simply re-arm all pending    *)
(* tasks for open orders at startup, recomputing remaining delay, clamped  *)
(* to zero if already overdue").  No revision re-arms; the action registers*)
(* the callback of the order-flag revision a second time for an order of   *)
(* the table.                                                              *)
(***************************************************************************)
Rearmed == {t \in DOMAIN tasks : tasks[t].dup}

RemainingOf(id, kind) ==
  LET orig == {t \in DOMAIN tasks : /\ tasks[t].pedidoId = id
                                    /\ tasks[t].kind = kind
                                    /\ tasks[t].pc = "pending"}
  IN  IF orig = {} THEN 0 ELSE tasks[CHOOSE t \in orig : TRUE].remaining

Rearm(limite, id, kind) ==
  /\ Cardinality(Rearmed) < limite
  /\ tasks' = Append(tasks, NewTask(0, id, kind, RemainingOf(id, kind), TRUE))
  /\ UNCHANGED <<revisao, worker, parentPort, emCurso, setup, conexoes, whatsappStatus, isDbReady, isInitializing, reinicios, clientes, pedidos, reqs>>
  /\ last' = NoAnswer

NextRearm ==
  \/ Next
  \/ \E id \in DOMAIN pedidos, kind \in Kinds : Rearm(MaxRearm, id, kind)

SpecRearm == Init /\ [][NextRearm]_vars

(***************************************************************************)
(* Re-arming right after a restart: the orders are those of the earlier    *)
(* run, no order is submitted.                                             *)
(***************************************************************************)
NextRestart ==
  \/ GateFlags
  \/ Firings
  \/ \E id \in DOMAIN pedidos, kind \in Kinds : Rearm(MaxRestart, id, kind)

SpecRestart == Init /\ [][NextRestart]_vars

(***************************************************************************)
(* Properties of the notification callbacks (order-flag revision).         *)
(***************************************************************************)
FlagOf(t) == SelectFlag(pedidos, tasks[t].pedidoId, tasks[t].kind)

\* C1: when two callbacks of the same order and kind run at the same time,
\* at most one of them has delivered its message.
C1_AtMostOneDelivered ==
  \A t, u \in DOMAIN tasks :
     SameJob(t, u) /\ Running(t) /\ Running(u)
        => tasks[t].sends + tasks[u].sends <= 1

\* C2: the read of the flag followed by its UPDATE acts as one conditional
\* update: of two callbacks of the same order and kind, at most one makes
\* the change from false to true and reports the message as newly marked.
C2_MarkedByOne ==
  \A t, u \in DOMAIN tasks :
     SameJob(t, u) => ~(tasks[t].outcome = "sent" /\ tasks[u].outcome = "sent")

\* C3: a callback that reads its flag as true sends nothing, attempts
\* nothing, ends as skipped, and the flag is still true.
C3_SkipWhenMarked ==
  \A t \in DOMAIN tasks :
     tasks[t].lido =>
        /\ tasks[t].pc = "done"
        /\ tasks[t].outcome = "skipped"
        /\ tasks[t].tentativas = 0
        /\ tasks[t].sends = 0
        /\ FlagOf(t)

\* A timer re-armed for the order of an earlier run, whose confirmation had
\* been sent, has fired and was skipped; no order was submitted in this run.
C3_Witness ==
  /\ reqs = << >>
  /\ \E t \in DOMAIN tasks :
        /\ tasks[t].dup /\ tasks[t].kind = "confirmacao"
        /\ tasks[t].lido /\ tasks[t].pc = "done"

\* C4: a callback whose send failed is over after that single attempt, has
\* delivered nothing, has left the flag of its kind false, and the answer
\* of the submission is still the 200 it was.
C4_FailedSendLeavesFlag ==
  \A t \in DOMAIN tasks :
     tasks[t].tentativas > tasks[t].sends =>
        /\ tasks[t].pc = "done"
        /\ tasks[t].outcome = "send_failed"
        /\ tasks[t].tentativas = 1
        /\ tasks[t].sends = 0
        /\ ~FlagOf(t)
        /\ reqs[tasks[t].req].pc = "done"
        /\ reqs[tasks[t].req].resp = 200

\* The dispatch send of an order failed after its confirmation was sent.
C4_Witness ==
  \E t, u \in DOMAIN tasks :
     /\ tasks[t].req = tasks[u].req
     /\ tasks[t].kind = "entrega" /\ tasks[t].outcome = "send_failed"
     /\ tasks[u].kind = "confirmacao" /\ tasks[u].outcome = "sent"

\* C5: end to end for an accepted submission: the receipt was sent exactly
\* once; a confirmation callback that ran to its end has sent exactly once,
\* not before the confirmation delay, and has marked the flag; a
\* confirmation callback that starts after another one of the same order
\* ran to its end sends nothing.
C5_EndToEnd ==
  /\ \A r \in DOMAIN reqs :
        /\ reqs[r].cupons <= 1
        /\ reqs[r].resp = 200 => reqs[r].cupons = 1
  /\ \A t \in DOMAIN tasks :
        /\ tasks[t].kind = "confirmacao" /\ tasks[t].outcome = "sent" =>
              /\ tasks[t].sends = 1
              /\ tasks[t].tentativas = 1
              /\ FlagOf(t)
              /\ ~tasks[t].dup => tasks[t].waited >= 30 * 1000
        /\ tasks[t].kind = "confirmacao" /\ tasks[t].aposEnvio =>
              /\ tasks[t].sends = 0
              /\ tasks[t].tentativas = 0
              /\ tasks[t].pc = "done" => tasks[t].outcome \in {"skipped", "store_error"}

\* An order was accepted, its confirmation was sent by the first callback,
\* and a second callback of the same kind then ran and was skipped.
C5_Witness ==
  \E r \in DOMAIN reqs, t, u \in DOMAIN tasks :
     /\ reqs[r].resp = 200 /\ reqs[r].cupons = 1
     /\ tasks[t].req = r /\ tasks[t].kind = "confirmacao"
     /\ tasks[t].outcome = "sent" /\ tasks[t].sends = 1
     /\ SameJob(t, u) /\ tasks[u].dup /\ tasks[u].aposEnvio
     /\ tasks[u].outcome = "skipped" /\ tasks[u].sends = 0

(***************************************************************************)
(* Properties of the readiness gate.                                       *)
(***************************************************************************)
\* C6: a submission handled while whatsappStatus is not 'ready' is answered
\* 503 and changes no table, admits no request and registers no timer; a
\* request is admitted to the store only while whatsappStatus is 'ready'.
C6_GateRejects ==
  [][ /\ last'.op = "criar" /\ last'.gate # "ready" =>
            /\ last'.resp = 503
            /\ UNCHANGED <<clientes, pedidos, reqs, tasks>>
      /\ Len(reqs') > Len(reqs) => whatsappStatus = "ready" ]_vars

\* The first revision of src/index.js, database ready, rejected a
\* submission while the QR code was pending.
C6_Witness ==
  /\ revisao = "index1" /\ isDbReady
  /\ last.op = "criar" /\ last.resp = 503 /\ last.gate = "qr_pending"

\* C7: in the order-flag revision, an identification handled while
\* whatsappStatus is not 'ready' is answered 503 and calls neither the
\* channel client nor the store.
C7_IdentifyGated ==
  revisao = "flags" /\ last.op = "identificar" /\ last.gate # "ready" =>
     last.resp = 503 /\ ~last.canal /\ ~last.banco

(***************************************************************************)
(* Properties of time.                                                     *)
(***************************************************************************)
\* C8: a callback has started (and so its send can have happened) only
\* after 30 seconds for the confirmation and 30 minutes for the dispatch
\* message, counted from the registration that follows the submission.
C8_NotBeforeFireAt ==
  \A t \in DOMAIN tasks :
     tasks[t].pc # "pending" =>
        tasks[t].waited >= (IF tasks[t].kind = "confirmacao"
                            THEN 30 * 1000 ELSE 30 * 60 * 1000)

\* Both messages of an order of src/index.js were sent, each at its delay.
C8_Witness ==
  /\ revisao = "index1"
  /\ \E t, u \in DOMAIN tasks :
        /\ tasks[t].kind = "confirmacao" /\ tasks[t].sends = 1
        /\ tasks[t].waited = 30 * 1000
        /\ tasks[u].kind = "entrega" /\ tasks[u].sends = 1
        /\ tasks[u].waited = 30 * 60 * 1000

(***************************************************************************)
(* Properties of the order rows.                                           *)
(***************************************************************************)
\* C9: a row is created with both flags false; no step sets a flag back to
\* false; a flag changes only in the UPDATE step of a callback of that
\* order and that kind.
C9_FlagsMonotonic ==
  [][ /\ \A i \in DOMAIN pedidos :
            /\ i \in DOMAIN pedidos'
            /\ \A k \in Kinds :
                  /\ SelectFlag(pedidos, i, k) => SelectFlag(pedidos', i, k)
                  /\ SelectFlag(pedidos', i, k) # SelectFlag(pedidos, i, k) =>
                        \E t \in DOMAIN tasks :
                           /\ tasks[t].pedidoId = i /\ tasks[t].kind = k
                           /\ tasks[t].pc = "update"
                           /\ tasks'[t].outcome = "sent"
      /\ \A i \in (DOMAIN pedidos') \ (DOMAIN pedidos) :
            \A k \in Kinds : ~SelectFlag(pedidos', i, k) ]_vars

\* A second order was created next to the one of an earlier run; its
\* confirmation flag was set, its dispatch callback is over without the
\* flag, and the flags of the first order are as they were.
C9_Witness ==
  /\ Len(pedidos) = 2
  /\ pedidos[1].confirmacao /\ ~pedidos[1].entrega
  /\ pedidos[2].confirmacao /\ ~pedidos[2].entrega
  /\ \E t \in DOMAIN tasks :
        tasks[t].pedidoId = 2 /\ tasks[t].kind = "entrega" /\ tasks[t].pc = "done"

\* C10: no step changes the snapshot (dados_pedido) or the owning phone
\* (cliente_telefone) of a row that exists, and no step removes a row.
C10_SnapshotFrozen ==
  [][ \A i \in DOMAIN pedidos :
         /\ i \in DOMAIN pedidos'
         /\ pedidos'[i].dados_pedido = pedidos[i].dados_pedido
         /\ pedidos'[i].cliente_telefone = pedidos[i].cliente_telefone ]_vars

\* The customer of the earlier order has ordered again, a message of the
\* new order was sent and marked, and the history was then read: the old
\* row still holds its own snapshot.
C10_Witness ==
  /\ Len(pedidos) = 2
  /\ pedidos[1].cliente_telefone = pedidos[2].cliente_telefone
  /\ pedidos[1].dados_pedido = OldBody
  /\ pedidos[2].dados_pedido # OldBody
  /\ \E t \in DOMAIN tasks : tasks[t].pedidoId = 2 /\ tasks[t].outcome = "sent"
  /\ last.op = "historico" /\ last.resp = 200 /\ last.ids = <<2, 1>>

(***************************************************************************)
(* Properties of the failures of a submission.                             *)
(***************************************************************************)
\* The digits of a phone field, without a leading 55.
DigitsOf(telefone) == StripCountry(SelectSeq(telefone.chars, IsDigit))

\* The validation errors of a body that has a customer: a phone that is
\* not a text of 10 or 11 digits, a cart that is not a non-empty array, no
\* payment method.
ValidationError(body) ==
  LET telefone == IF revisao = "flags" THEN body.cliente.telefone
                  ELSE body.cliente.telefoneFormatado
  IN  \/ ~telefone.isString
      \/ Len(DigitsOf(telefone)) \notin {10, 11}
      \/ ~body.carrinhoEhArray
      \/ body.carrinho = << >>
      \/ body.pagamento = ""

\* C11: a submission whose body has a validation error is answered 400
\* once it is past the readiness gate (503 before it), and changes no
\* table, admits no request and registers no timer.
C11_InvalidRejected ==
  [][ \A body \in Bodies :
         body.temCliente /\ ValidationError(body) /\ Submit(body) =>
            /\ last'.op = "criar"
            /\ last'.resp = IF Admitted THEN 400 ELSE 503
            /\ UNCHANGED <<clientes, pedidos, reqs, tasks>> ]_vars

\* The second revision of src/index.js answered 400 while ready.
C11_Witness ==
  /\ revisao = "index2"
  /\ last.op = "criar" /\ last.resp = 400 /\ last.gate = "ready"

\* C12: a submission whose receipt send fails is answered 500 and registers
\* no timer; the answer of a submission, once given, is never changed, and
\* behind every callback whose send or UPDATE failed stands the 200 the
\* submission was answered with.
C12_ReceiptFailureSurfaced ==
  [][ /\ \A r \in DOMAIN reqs :
            /\ reqs[r].pc = "send" /\ reqs'[r].pc = "done"
                 /\ reqs'[r].cupons = reqs[r].cupons =>
                    reqs'[r].resp = 500 /\ tasks' = tasks
            /\ reqs[r].pc = "done" => reqs'[r] = reqs[r]
      /\ \A t \in DOMAIN tasks' :
            tasks'[t].outcome \in {"send_failed", "update_failed", "store_error"}
               /\ ~tasks'[t].dup => reqs'[tasks'[t].req].resp = 200 ]_vars

\* The order row was inserted, the receipt send failed, the answer is 500.
C12_Witness ==
  \E r \in DOMAIN reqs :
     /\ reqs[r].pc = "done" /\ reqs[r].resp = 500 /\ reqs[r].cupons = 0
     /\ reqs[r].pedidoId = Len(pedidos) /\ reqs[r].pedidoId > 0
     /\ tasks = << >>

\* C13: when pool.connect, the customer upsert or the order insert of a
\* submission fails, the submission is over with 500, holds no order id,
\* has sent no receipt and has no timer, and the step adds no order row; an
\* order row is added only by the insert that succeeds, whose request takes
\* the id of the row; a callback registered by a submission belongs to a
\* submission that holds the id of its row and was answered 200.
C13_StoreFailureSurfaced ==
  [][ /\ \A r \in DOMAIN reqs :
            ReqConnect(r, FALSE) \/ ReqUpsert(r, FALSE) \/ ReqInsert(r, FALSE) =>
               /\ reqs'[r].pc = "done"
               /\ reqs'[r].resp = 500
               /\ reqs'[r].pedidoId = 0
               /\ reqs'[r].cupons = 0
               /\ pedidos' = pedidos
               /\ tasks' = tasks
               /\ \A t \in DOMAIN tasks : tasks[t].dup \/ tasks[t].req # r
      /\ pedidos' # pedidos /\ Len(pedidos') # Len(pedidos) =>
            /\ Len(pedidos') = Len(pedidos) + 1
            /\ \E r \in DOMAIN reqs :
                  /\ reqs[r].pc = "insert" /\ reqs'[r].pc = "send"
                  /\ reqs'[r].pedidoId = Len(pedidos')
      /\ \A t \in DOMAIN tasks' :
            ~tasks'[t].dup =>
               /\ reqs'[tasks'[t].req].resp = 200
               /\ reqs'[tasks'[t].req].cupons = 1
               /\ reqs'[tasks'[t].req].pedidoId = tasks'[t].pedidoId
               /\ tasks'[t].pedidoId \in DOMAIN pedidos' ]_vars

\* On empty tables the upsert of a submission succeeded and its insert
\* failed: the customer row is there, no order row is.
C13_Witness ==
  /\ pedidos = << >> /\ tasks = << >>
  /\ \E r \in DOMAIN reqs :
        /\ reqs[r].pc = "done" /\ reqs[r].resp = 500 /\ reqs[r].pedidoId = 0
        /\ reqs[r].tel \in DOMAIN clientes

(***************************************************************************)
(* Properties of the notification tasks.                                   *)
(***************************************************************************)
TasksOf(id, kind) ==
  {t \in DOMAIN tasks : tasks[t].pedidoId = id /\ tasks[t].kind = kind}

\* C14: every order row inserted by a submission that is over has exactly
\* one confirmation callback and exactly one dispatch callback; a callback
\* attempts at most one send, and none when it read its flag as true.
C14_TasksForEveryRow ==
  /\ \A r \in DOMAIN reqs :
        reqs[r].pc = "done" /\ reqs[r].pedidoId # 0 =>
           \A k \in Kinds : Cardinality(TasksOf(reqs[r].pedidoId, k)) = 1
  /\ \A t \in DOMAIN tasks :
        /\ tasks[t].tentativas <= 1
        /\ tasks[t].lido => tasks[t].tentativas = 0

(***************************************************************************)
(* Properties of the recovery cycle.                                       *)
(***************************************************************************)
\* C15: in src/index.js the gate never stays 'disconnected' forever: a new
\* initializeWhatsApp is eventually started and takes the state away from
\* 'disconnected'.
C15_RecoveryCycle ==
  (revisao \in IndexRevisions /\ whatsappStatus = "disconnected")
     ~> (whatsappStatus # "disconnected")

\* C16: in the order-flag revision the gate never stays 'disconnected'
\* forever: a new initialization of the client is eventually attempted
\* and the state can leave 'disconnected'.
C16_RecoveryCycleFlags ==
  (revisao = "flags" /\ whatsappStatus = "disconnected")
     ~> (whatsappStatus # "disconnected")

(***************************************************************************)
(* Properties of the customer rows.                                        *)
(***************************************************************************)
\* C17: clientes holds one row per phone (it is keyed by telefone); the
\* upsert of a submission that succeeds leaves under the phone of the
\* submission the name, address and reference the submission passed to it
\* (the texts of the body; in the first revision of src/index.js the texts
\* of the body after cleanInput), creates the row when the phone is new,
\* and touches no other row; nothing else changes a customer row.  The row
\* of a phone so holds the three texts of the latest upsert under it.
C17_UpsertOverwrites ==
  [][ /\ \A r \in DOMAIN reqs :
            ReqUpsert(r, TRUE) =>
               /\ DOMAIN clientes' = (DOMAIN clientes) \cup {reqs[r].tel}
               /\ clientes'[reqs[r].tel] = UpsertParams(reqs[r].body.cliente)
               /\ \A p \in (DOMAIN clientes) \ {reqs[r].tel} :
                     clientes'[p] = clientes[p]
      /\ clientes' # clientes =>
            \E r \in DOMAIN reqs :
               reqs[r].pc = "upsert" /\ reqs'[r].pc \in {"insert", "send"} ]_vars

\* The customer of the earlier order has ordered again under another way
\* of writing the same phone: one customer row, with the new name, address
\* and reference, and two order rows under it.
C17_Witness ==
  /\ Len(pedidos) = 2
  /\ pedidos[1].cliente_telefone = pedidos[2].cliente_telefone
  /\ DOMAIN clientes = {pedidos[2].cliente_telefone}
  /\ clientes[pedidos[2].cliente_telefone] =
        [nome |-> AnaB, endereco |-> Rua2, referencia |-> Portao]
  /\ \E r \in DOMAIN reqs : reqs[r].pc = "done" /\ reqs[r].resp = 200

(***************************************************************************)
(* Properties of the phone keys.                                           *)
(***************************************************************************)
\* C18: in src/unnamed/part_002 the lookups compute from a phone the key
\* under which a submission of that phone wrote its rows: the history of a
\* phone holds every order submitted with that phone, and the
\* identification of that phone finds its customer.
C18_OneKeyPolicy ==
  [][ \A raw \in RawPhones :
         /\ History(raw, TRUE) =>
               \A i \in DOMAIN pedidos :
                  pedidos[i].dados_pedido.cliente.telefone = raw =>
                     \E j \in DOMAIN last'.ids : last'.ids[j] = i
         /\ /\ Identify(raw, "sim", TRUE)
            /\ last'.resp = 200
            /\ \E i \in DOMAIN pedidos :
                  pedidos[i].dados_pedido.cliente.telefone = raw
            => ~last'.isNew ]_vars

(***************************************************************************)
(* Properties of normalizarTelefone.                                       *)
(***************************************************************************)
DigitCount(telefone) == Len(SelectSeq(telefone.chars, IsDigit))

\* A text of 10 or 11 digits, or of 12 or 13 digits that begin with 55,
\* whatever other characters stand between them.
WellFormedPhone(telefone) ==
  /\ telefone.isString
  /\ \/ DigitCount(telefone) \in {10, 11}
     \/ /\ DigitCount(telefone) \in {12, 13}
        /\ SubSeq(SelectSeq(telefone.chars, IsDigit), 1, 2) = <<5, 5>>

\* C19: for every text of 10 or 11 digits, with or without other
\* characters and a leading 55, normalizarTelefone returns a phone (not
\* null) that is as long as the one it returns for 2131234567, and
\* returns that phone again when applied to it.
C19_FixedLengthIdempotent ==
  last.op = "retorno" /\ WellFormedPhone(last.telefone) =>
     /\ last.chave # Null
     /\ Len(last.chave) = Len(Normalizer(TelB))
     /\ last.denovo = last.chave

\* C20: for a value that is no text, and for a text whose digits, a
\* leading 55 removed, are fewer than 10 or more than 11, normalizarTelefone
\* returns null.
C20_InvalidIsNull ==
  last.op = "retorno" =>
     /\ ~last.telefone.isString => last.chave = Null
     /\ Len(DigitsOf(last.telefone)) \notin {10, 11} => last.chave = Null

\* The second revision of src/index.js was given the number 11991234567
\* (not a text) and returned null.
C20_Witness ==
  /\ revisao = "index2"
  /\ last.op = "retorno"
  /\ last.telefone = Num(TelA.chars)
  /\ last.chave = Null

(***************************************************************************)
(* Properties of gerarCupomFiscal.                                         *)
(***************************************************************************)
\* The amount a line of the receipt prints.
Printed(texto) == parseFloat(ReplaceFirst(texto, Comma, Dot))

\* The sum over the lines of a cart of unit price times quantity.
RECURSIVE CartSum(_)
CartSum(carrinho) ==
  IF carrinho = << >> THEN 0
  ELSE Head(carrinho).preco * Head(carrinho).quantidade + CartSum(Tail(carrinho))

\* C21: a receipt prints as subtotal the sum over the lines of the cart of
\* unit price times quantity, and as total that sum plus the delivery fee
\* of 5,00; each line prints its price times its quantity; the cart
\* [{10.00, 2}, {5.50, 1}] gives "25,50" and "30,50".
C21_SubtotalAndTotal ==
  last.op = "cupom" =>
     \A i \in DOMAIN last.cupons :
        LET cupom == last.cupons[i]
            carrinho == last.pedido.carrinho
        IN  ~cupom.threw =>
               /\ Printed(cupom.subtotal) = CartSum(carrinho)
               /\ Printed(cupom.total) = CartSum(carrinho) + 500
               /\ \A k \in DOMAIN carrinho :
                     Printed(cupom.itens[k].preco)
                        = carrinho[k].preco * carrinho[k].quantidade
               /\ carrinho = CartTwo =>
                     /\ cupom.subtotal = <<2, 5, Comma, 5, 0>>
                     /\ cupom.total = <<3, 0, Comma, 5, 0>>

\* The receipt of the cart [{10.00, 2}, {5.50, 1}] was rendered.
C21_Witness ==
  /\ last.op = "cupom"
  /\ last.pedido.carrinho = CartTwo
  /\ \E i \in DOMAIN last.cupons :
        /\ ~last.cupons[i].threw
        /\ last.cupons[i].subtotal = <<2, 5, Comma, 5, 0>>
        /\ last.cupons[i].total = <<3, 0, Comma, 5, 0>>

\* The amount given of an order, text or number.
AmountGiven(troco) ==
  IF troco.tipo = "texto" THEN Printed(troco.chars) ELSE troco.centavos

\* C22: for an order paid in cash with an amount given, text or number,
\* the call returns a receipt that prints the change, the amount given
\* minus the total, negative when the amount given is less than the total.
C22_ChangePrinted ==
  last.op = "cupom" =>
     \A i \in DOMAIN last.cupons :
        last.pedido.pagamento = "Dinheiro" /\ Truthy(last.pedido.troco) =>
           /\ ~last.cupons[i].threw
           /\ last.cupons[i].levar # << >>
           /\ Printed(last.cupons[i].levar)
                 = AmountGiven(last.pedido.troco)
                      - (CartSum(last.pedido.carrinho) + 500)

\* C23: two calls on the same order return the same receipt, whatever the
\* clock shows at each of them.
C23_SameOrderSameText ==
  last.op = "cupom" =>
     \A i, j \in DOMAIN last.cupons : last.cupons[i] = last.cupons[j]

(***************************************************************************)
(* Properties of the two kinds of one order.                               *)
(***************************************************************************)
OtherKind(kind) == IF kind = "confirmacao" THEN "entrega" ELSE "confirmacao"

\* The column mensagem_<kind>_enviada of a row.
Column(row, kind) == IF kind = "confirmacao" THEN row.confirmacao ELSE row.entrega

TerminalOutcomes == {"sent", "skipped", "store_error", "send_failed", "update_failed"}

\* C25: every callback registered by an accepted submission is eventually
\* over with one of the terminal outcomes; it starts once (once started it
\* is never pending again) and attempts at most one send; once it is over
\* it does not change any more, and the flag of its order and kind does
\* not change any more.
C25_EveryTaskEndsOnce ==
  /\ \A t \in 1..(2 * MaxReq) :
        (t \in DOMAIN tasks)
           ~> /\ t \in DOMAIN tasks
              /\ tasks[t].pc = "done"
              /\ tasks[t].outcome \in TerminalOutcomes
  /\ [][ \A t \in DOMAIN tasks :
            /\ tasks[t].pc # "pending" => tasks'[t].pc # "pending"
            /\ tasks'[t].tentativas <= 1
            /\ tasks[t].pc = "done" =>
                  /\ tasks'[t] = tasks[t]
                  /\ Column(pedidos'[tasks[t].pedidoId], tasks[t].kind)
                        = Column(pedidos[tasks[t].pedidoId], tasks[t].kind) ]_vars

\* Both callbacks of an order are over: the confirmation failed to send
\* and is logged, the dispatch message was sent and marked.
C25_Witness ==
  \E c, e \in DOMAIN tasks :
     /\ tasks[c].req = tasks[e].req
     /\ tasks[c].kind = "confirmacao" /\ tasks[c].pc = "done"
     /\ tasks[c].outcome = "send_failed" /\ tasks[c].tentativas = 1
     /\ tasks[e].kind = "entrega" /\ tasks[e].pc = "done"
     /\ tasks[e].outcome = "sent"
     /\ Column(pedidos[tasks[e].pedidoId], "entrega")
     /\ ~Column(pedidos[tasks[c].pedidoId], "confirmacao")

(***************************************************************************)
(* Properties of the pool.                                                 *)
(***************************************************************************)
\* Who took the client is over: the handler has answered, the callback has
\* ended, setupDatabase has ended or is at a later attempt.
Over(c) ==
  IF c[1] = "pedido" THEN reqs[c[2]].pc = "done"
  ELSE IF c[1] = "timer" THEN tasks[c[2]].pc = "done"
  ELSE setup.pc \in {"done", "logged", "failed", "threw"} \/ setup.tentativa > c[2]

\* C26: no client taken from the pool is released twice, and a client
\* whose taker is over was released once.
C26_ReleasedExactlyOnce ==
  \A c \in DOMAIN conexoes :
     /\ conexoes[c] <= 1
     /\ Over(c) => conexoes[c] = 1

(***************************************************************************)
(* Properties of the lock of initializeWhatsApp.                           *)
(***************************************************************************)
\* C27: in src/index.js at most one call of initializeWhatsApp is between
\* the lock and the finally, and isInitializing is true exactly then; a
\* call made meanwhile changes neither the lock nor the readiness state
\* and starts nothing; the call that holds the lock releases it when
\* client.initialize() resolves and when it rejects.
C27_OneInitialization ==
  /\ [](revisao \in IndexRevisions =>
          /\ emCurso \in {0, 1}
          /\ isInitializing = (emCurso = 1))
  /\ [][ /\ Reinitialize /\ isInitializing =>
               UNCHANGED <<isInitializing, emCurso, whatsappStatus>>
         /\ \A ok \in Outcomes :
               InitializeSettled(ok) => ~isInitializing' /\ emCurso' = 0 ]_vars

\* The channel client was disconnected while an initialization was in
\* progress, and the timer's call of initializeWhatsApp has returned at
\* once: the initialization is still the only one, the state is still
\* 'disconnected'.
C27_Witness ==
  /\ revisao = "index2"
  /\ last.op = "inicializar" /\ ~last.canal
  /\ whatsappStatus = "disconnected"
  /\ isInitializing /\ emCurso = 1
  /\ reinicios = 0

(***************************************************************************)
(* Properties of the order of the steps of a submission.                   *)
(***************************************************************************)
\* The callbacks a submission registered.
TimersOf(r) == {t \in DOMAIN tasks : ~tasks[t].dup /\ tasks[t].req = r}

\* C28: a submission whose receipt was not sent (not yet, or the send
\* failed) has no timer, so no callback of it ever runs or sends; timers
\* are registered only by the step in which the receipt send succeeds,
\* both of them, and that step gives the 200; a submission answered 200
\* has sent its receipt and has one timer of each kind.
C28_TimersAfterReceipt ==
  /\ [](\A r \in DOMAIN reqs :
          /\ reqs[r].cupons = 0 => TimersOf(r) = {}
          /\ reqs[r].resp = 200 =>
                /\ reqs[r].cupons = 1
                /\ \A k \in Kinds :
                      Cardinality({t \in TimersOf(r) : tasks[t].kind = k}) = 1)
  /\ [][ Len(tasks') > Len(tasks) =>
            \E r \in DOMAIN reqs :
               /\ reqs[r].pc = "send" /\ reqs[r].resp = 0
               /\ reqs'[r].cupons = reqs[r].cupons + 1
               /\ reqs'[r].resp = 200
               /\ Len(tasks') = Len(tasks) + 2 ]_vars

\* A submission of the second revision of src/index.js was answered 200
\* after its receipt, and its confirmation was then sent.
C28_Witness ==
  /\ revisao = "index2"
  /\ \E r \in DOMAIN reqs :
        /\ reqs[r].resp = 200 /\ reqs[r].cupons = 1
        /\ Cardinality(TimersOf(r)) = 2
        /\ \E t \in TimersOf(r) : tasks[t].kind = "confirmacao" /\ tasks[t].sends = 1

\* C29: a dispatch callback registered by a submission has started only
\* if the confirmation callback of that submission has started.
C29_ConfirmationFirst ==
  \A r \in DOMAIN reqs :
     \A c, e \in TimersOf(r) :
        tasks[c].kind = "confirmacao" /\ tasks[e].kind = "entrega"
           /\ tasks[e].pc # "pending" => tasks[c].pc # "pending"

\* Both delays of an order of the first revision of src/index.js elapsed
\* before any callback was called (the process was busy for 30 minutes):
\* the confirmation started first, and the dispatch callback started while
\* the send of the confirmation was still awaited.
C29_Witness ==
  /\ revisao = "index1"
  /\ \E r \in DOMAIN reqs :
        \E c, e \in TimersOf(r) :
           /\ tasks[c].kind = "confirmacao" /\ tasks[c].pc = "send"
           /\ tasks[c].waited = 30 * 60 * 1000
           /\ tasks[e].kind = "entrega" /\ tasks[e].pc = "send"

\* The callbacks of a kind for an order whose send has succeeded.
Delivered(id, kind) == {t \in TasksOf(id, kind) : tasks[t].sends >= 1}

\* C30: a flag of an order submitted in this run is true only if a send of
\* that kind for that order has succeeded, and a flag of any order becomes
\* true only in the UPDATE step of a callback of that order and kind whose
\* own send has succeeded before.
C30_FlagOnlyAfterSend ==
  /\ [](\A r \in DOMAIN reqs, k \in Kinds :
           reqs[r].pedidoId \in DOMAIN pedidos
              /\ Column(pedidos[reqs[r].pedidoId], k)
           => Delivered(reqs[r].pedidoId, k) # {})
  /\ [][ \A id \in DOMAIN pedidos, k \in Kinds :
            ~Column(pedidos[id], k) /\ Column(pedidos'[id], k)
            => \E t \in Delivered(id, k) :
                  tasks[t].pc = "update" /\ tasks'[t].pc = "done" ]_vars

\* The order submitted in this run has both flags true, each after one
\* send by the callback of its kind.
C30_Witness ==
  /\ revisao = "flags"
  /\ \E r \in DOMAIN reqs :
        /\ reqs[r].pedidoId \in DOMAIN pedidos
        /\ \A k \in Kinds :
              /\ Column(pedidos[reqs[r].pedidoId], k)
              /\ \E t \in Delivered(reqs[r].pedidoId, k) :
                    tasks[t].outcome = "sent" /\ tasks[t].sends = 1

\* C31: when a callback has delivered its message and is over, the flag of
\* its order and kind is true.
C31_DeliveredIsMarked ==
  \A t \in DOMAIN tasks :
     revisao = "flags" /\ tasks[t].pc = "done" /\ tasks[t].sends >= 1
        => Column(pedidos[tasks[t].pedidoId], tasks[t].kind)

\* C32: a submission that is over with a failure response has inserted no
\* order row, and when it is the only submission admitted so far the
\* customer table is the one the run started with.
C32_AllOrNothing ==
  \A r \in DOMAIN reqs :
     reqs[r].pc = "done" /\ reqs[r].resp # 200
        => /\ reqs[r].pedidoId = 0
           /\ Len(reqs) = 1 =>
                 \/ \E store \in PersistedStores : clientes = store.clientes
                 \/ clientes \in PersistedClientesIndex

\* C33: a submission whose body has no cliente is answered in the turn of
\* its arrival, with 400 once it is past the readiness gate (503 before it).
C33_NoClienteRejected ==
  [][ Submit(NoClienteBody) =>
         /\ last'.op = "criar"
         /\ last'.resp = IF Admitted THEN 400 ELSE 503 ]_vars

(***************************************************************************)
(* Properties of the start of src/index.js.                                *)
(***************************************************************************)
\* C34: in the first revision of src/index.js, isDbReady is true only once
\* setupDatabase has returned from a successful attempt, becomes true in
\* the step that ends that attempt and is never set back; a submission or
\* an identification handled while isDbReady is false or whatsappStatus is
\* not 'ready' is answered 503 and admits nothing; and /health answers
\* 'healthy' exactly when both hold.
C34_ServicesReady ==
  /\ [](isDbReady => setup.pc = "done")
  /\ [][ /\ \A body \in Bodies :
               Submit(body) /\ ~(isDbReady /\ whatsappStatus = "ready")
                  => last'.resp = 503 /\ UNCHANGED reqs
         /\ Len(reqs') > Len(reqs) => isDbReady /\ whatsappStatus = "ready"
         /\ \A raw \in RawPhones, registrado \in {"sim", "nao", "erro"}, dbOk \in BOOLEAN :
               Identify(raw, registrado, dbOk)
                  => (last'.resp = 503) = ~(isDbReady /\ whatsappStatus = "ready")
         /\ isDbReady => isDbReady'
         /\ ~isDbReady /\ isDbReady' => setup.pc = "query" /\ setup'.pc = "done"
         /\ Health =>
               (last'.status = "healthy") = (isDbReady /\ whatsappStatus = "ready")
       ]_vars

\* With a submission admitted, /health answered 'healthy'.
C34_Witness ==
  /\ revisao = "index1"
  /\ Len(reqs) = 1
  /\ last.op = "health" /\ last.status = "healthy"
  /\ isDbReady /\ whatsappStatus = "ready"

\* C35: setupDatabase of src/index.js makes at most maxRetries attempts,
\* pauses 2 s after the first failed attempt and 4 s after the second,
\* returns only from an attempt that succeeded, and ends otherwise with the
\* error that follows the third failed attempt.
C35_SetupEnds ==
  /\ [](revisao \in IndexRevisions =>
           /\ setup.tentativa <= maxRetries
           /\ setup.pc = "wait" =>
                 setup.espera = 2000 * setup.tentativa /\ setup.tentativa < maxRetries
           /\ setup.pc \notin {"connect", "query", "wait", "done"} =>
                 setup.pc = "failed" /\ setup.retryCount = maxRetries)
  /\ [][ setup'.pc = "done" /\ setup.pc # "done" /\ revisao \in IndexRevisions
            => SetupQuery(TRUE) /\ setup.clientDB = setup.tentativa ]_vars

(***************************************************************************)
(* Properties of src/whatsapp-worker.js.                                   *)
(***************************************************************************)
\* The lifecycle messages the parent has been posted, in their order.
Forwarded ==
  LET m == SelectSeq(parentPort, LAMBDA x : x.type \in ClientEvents)
  IN  [i \in 1..Len(m) |-> m[i].type]

\* C36: the lifecycle messages posted to the parent are the events the
\* client emitted, in the order of their emission: what has been posted is
\* the beginning of what was emitted, and all of it once no listener is
\* suspended at saveSession.
C36_EventsInOrder ==
  /\ Len(Forwarded) <= Len(worker.emitidos)
  /\ Forwarded = SubSeq(worker.emitidos, 1, Len(Forwarded))
  /\ worker.salvando = 0 => Forwarded = worker.emitidos

\* The replies the parent has been posted.
Replies == SelectSeq(parentPort, LAMBDA x : x.type \in {"message_sent", "error"})

\* C37: every 'send_message' request has exactly one reply, posted in the
\* turn the request is handled, and a request received after the client
\* emitted 'ready' as its last event is answered 'message_sent' with the
\* number of the request.
C37_OneReplyEach ==
  /\ [](Len(Replies) = worker.recebidas)
  /\ [][ \A message \in ParentMessages :
            /\ OnMessage(message)
            /\ message.type = "send_message"
            /\ worker.emitidos # << >>
            /\ worker.emitidos[Len(worker.emitidos)] = "ready"
            => parentPort' = Append(parentPort, [type |-> "message_sent",
                                                 number |-> message.number]) ]_vars

=============================================================================
